---------------------------- MODULE Spec2Model ----------------------------
(***************************************************************************)
(* Room / game-session engine of realtime-backend (src/unnamed/part_000). *)
(*                                                                         *)
(* The server is one single-threaded event loop: every socket handler and  *)
(* every timer callback runs to completion, so each is one action.         *)
(*                                                                         *)
(* JavaScript values: null is the string "null", undefined the string      *)
(* "undef"; arrays are functions on 0..n-1 (read through At, which gives   *)
(* "undef" outside the array as JavaScript does); Maps are functions whose *)
(* DOMAIN is the set of keys present.  A TypeError thrown inside a handler *)
(* is not caught anywhere in the source: the handler stops at the throw    *)
(* (state written before it stays written), last.error is set and the      *)
(* process ends, so no action is enabled afterwards.                       *)
(***************************************************************************)
EXTENDS Integers, Sequences, FiniteSets, TLC

\* ------------------------------------------------------------------ bounds
\* socket.io connection ids and room codes drawn by Math.random
Sockets == {"s1", "s2", "s3"}
CodeOrder == <<"A", "B">>
Codes   == {CodeOrder[i] : i \in DOMAIN CodeOrder}

\* setTimeout/setInterval pairs alive at once in Spec; a move that would start
\* one more is not taken
MaxTimers == 1

\* the same for SpecTimers
MaxPairs == 2

\* accepted moves in one run of SpecTimers
MaxTimedMoves == 2

\* discs dropped in one run of SpecConnect4Wide
MaxDrops == 10

\* discs stacked in one column in a run of SpecConnect4Wide
MaxHeight == 4

\* edges on offer at once in SpecDots, counted from the first one not drawn
EdgeWindow == 3

\* moves accepted (valid: true) in one run of Spec
MaxMoves == 3

VARIABLES
  sockets,     \* socket id -> "new" | "up" | "gone"
  rooms,       \* the Map rooms: code -> room record
  gameStates,  \* the Map gameStates: code -> game-state record
  timers,      \* the runtime's live setTimeout / setInterval pairs, oldest first
  orphans,     \* timeLeft of replaced game-state objects a countdown still holds
  moves,       \* moves accepted so far
  out,         \* notifications emitted by the handler that ran last
  last         \* the handler that ran last and what it returned

vars == <<sockets, rooms, gameStates, timers, orphans, moves, out, last>>

Null  == "null"
Undef == "undef"

\* arr[i] of JavaScript: undefined outside the array
At(arr, i) == IF i \in DOMAIN arr THEN arr[i] ELSE Undef

\* Array(n).fill(v), indexed from 0
Fill(n, v) == [i \in 0..(n - 1) |-> v]

\* an emit to everybody instead of socket.emit
ToEverybody(s) == [kind |-> "all", id |-> ""]

ToSocket(s) == [kind |-> "socket", id |-> s]

ToRoom(c)   == [kind |-> "room", id |-> c]

Running == ~last.error

\* found: the handler got past its lookups (room, game state) to do its work
\* move, gameType: what a makeMove message carried
Did(op, s, c, found, valid, err) ==
  [op |-> op, sid |-> s, code |-> c, found |-> found, valid |-> valid, error |-> err,
   move |-> Null, gameType |-> Null]

DidMove(s, c, move, gameType, found, valid, err) ==
  [op |-> "makeMove", sid |-> s, code |-> c, found |-> found, valid |-> valid,
   error |-> err, move |-> move, gameType |-> gameType]

\* what a move handler returns: the (mutated) game state, valid, the extra
\* keys of the result object; error: the handler threw instead of returning
Acc(gs, extra) == [gs |-> gs, valid |-> TRUE, error |-> FALSE, extra |-> extra]
Rej(gs)        == [gs |-> gs, valid |-> FALSE, error |-> FALSE, extra |-> {}]
Throw(gs)      == [gs |-> gs, valid |-> FALSE, error |-> TRUE, extra |-> {}]


\* ------------------------------------------------- players (room.players)
\* players.findIndex(p => p.id === id): 0-based, -1 when absent
RECURSIVE FindFrom(_, _, _)
FindFrom(players, id, i) ==
  IF i > Len(players) THEN -1
  ELSE IF players[i] = id THEN i - 1
  ELSE FindFrom(players, id, i + 1)

findIndex(players, id) == FindFrom(players, id, 1)

\* players[i].id ; Undef stands for the TypeError of reading .id of undefined
PlayerId(players, i) ==
  IF i + 1 \in DOMAIN players THEN players[i + 1] ELSE Undef

\* a filter that keeps everybody
WithoutNobody(players, id) == players

\* players.filter(p => p.id !== id)
RECURSIVE Without(_, _)
Without(players, id) ==
  IF players = <<>> THEN <<>>
  ELSE IF Head(players) = id THEN Without(Tail(players), id)
  ELSE <<Head(players)>> \o Without(Tail(players), id)

\* ------------------------------------------------------ initial boards
Grid(rows, cols, v) == [r \in 0..(rows - 1) |-> [c \in 0..(cols - 1) |-> v]]

initializeCheckersBoard ==
  [r \in 0..7 |-> [c \in 0..7 |->
     IF r < 3 /\ (r + c) % 2 = 1 THEN "black"
     ELSE IF r >= 5 /\ (r + c) % 2 = 1 THEN "red"
     ELSE Null]]

initializeDotsAndBoxes ==
  [gridSize |-> 4,
   horizontalLines |-> Grid(4, 3, FALSE),
   verticalLines |-> Grid(3, 4, FALSE),
   boxes |-> Grid(3, 3, Null),
   scores |-> [player1 |-> 0, player2 |-> 0],
   completedBoxes |-> 0,
   totalBoxes |-> 9]

initializeLudo ==
  [players |-> [player1 |-> [pieces |-> Fill(2, 0), home |-> 0],
                player2 |-> [pieces |-> Fill(2, 0), home |-> 0]],
   diceValue |-> 0,
   diceRolled |-> FALSE,
   winner |-> Null]

initializeMiniChess ==
  [r \in 0..4 |->
     CASE r = 0 -> [c \in 0..4 |-> <<"r", "n", "k", "n", "r">>[c + 1]]
       [] r = 1 -> [c \in 0..4 |-> "p"]
       [] r = 3 -> [c \in 0..4 |-> "P"]
       [] r = 4 -> [c \in 0..4 |-> <<"R", "N", "K", "N", "R">>[c + 1]]
       [] OTHER -> [c \in 0..4 |-> Null]]

\* The Fisher-Yates shuffle of [1,1,2,2,...,8,8] can produce every
\* arrangement; the model draws the result from these three.
Decks ==
  { <<1, 1, 2, 2, 3, 3, 4, 4, 5, 5, 6, 6, 7, 7, 8, 8>>,
    <<1, 2, 1, 2, 3, 4, 3, 4, 5, 6, 5, 6, 7, 8, 7, 8>>,
    <<8, 7, 6, 5, 4, 3, 2, 1, 1, 2, 3, 4, 5, 6, 7, 8>> }

initializeMemoryMatch(deck) ==
  [cards |-> [i \in 0..15 |->
                [value |-> deck[i + 1], flipped |-> FALSE, matched |-> FALSE]],
   flippedCards |-> <<>>,
   scores |-> [player1 |-> 0, player2 |-> 0]]

\* The placement loop ends with 10 distinct mined cells, any 10; the model
\* draws the mined set from these two layouts (cell = row * 8 + col).
MineLayouts ==
  { {0, 1, 2, 3, 4, 5, 6, 7, 8, 9},
    {0, 9, 18, 27, 36, 45, 54, 63, 7, 56} }

initializeMinesweeper(mines) ==
  [board |-> [r \in 0..7 |-> [c \in 0..7 |->
                [isMine |-> (r * 8 + c) \in mines,
                 isRevealed |-> FALSE,
                 neighborCount |-> 0,
                 revealedBy |-> Null]]],
   scores |-> [player1 |-> 0, player2 |-> 0]]

GameTypes ==
  {"tictactoe", "connect4", "checkers", "battleship", "gomoku",
   "dotsandboxes", "ludo", "minichess", "memorymatch", "minesweeper"}

\* outcomes of Math.random consumed by initializeGameState
Seeds(gameType) ==
  CASE gameType = "memorymatch" -> Decks
    [] gameType = "minesweeper" -> MineLayouts
    [] OTHER -> {{}}

\* the battleship board object: one entry per distinct player id
BattleshipBoard(players) ==
  [p \in {players[1], players[2]} |-> [ships |-> <<>>, shots |-> Fill(100, Null)]]

InitialBoard(gameType, players, seed) ==
  CASE gameType = "tictactoe"    -> Fill(9, Null)
    [] gameType = "connect4"     -> Grid(6, 7, Null)
    [] gameType = "checkers"     -> initializeCheckersBoard
    [] gameType = "battleship"   -> BattleshipBoard(players)
    [] gameType = "gomoku"       -> Grid(15, 15, Null)
    [] gameType = "dotsandboxes" -> initializeDotsAndBoxes
    [] gameType = "ludo"         -> initializeLudo
    [] gameType = "minichess"    -> initializeMiniChess
    [] gameType = "memorymatch"  -> initializeMemoryMatch(seed)
    [] gameType = "minesweeper"  -> initializeMinesweeper(seed)
    [] OTHER                     -> Null

\* initializeGameState throws at room.players[1].id when battleship is
\* selected in a room of one player
InitThrows(gameType, players) ==
  \/ Len(players) < 1
  \/ gameType = "battleship" /\ Len(players) < 2

\* the object stored by gameStates.set(roomCode, gameState)
initializeGameState(oid, gameType, players, seed) ==
  [oid |-> oid,
   currentPlayer |-> players[1],
   gameType |-> gameType,
   board |-> InitialBoard(gameType, players, seed),
   winner |-> Null,
   gameOver |-> FALSE,
   draw |-> FALSE,   \* the key draw is absent until a handler sets it to true
   phase |-> IF gameType = "battleship" THEN "setup" ELSE Undef,
   players |-> players,
   aliased |-> TRUE,
   timer |-> 0,
   timerStarted |-> FALSE,
   timeLeft |-> 0,   \* undefined until the first startTurnTimer; never read before
   firstMoveMade |-> FALSE]


\* ------------------------------------------------------------- timers
\* a chain that starts every game's timer with startTurnTimer's default
TimerDurationDefault(gameType) == 3

\* per-move duration wired into makeMove and skipTurn; 0: no timer started
TimerDuration(gameType) ==
  CASE gameType = "tictactoe"    -> 4
    [] gameType = "dotsandboxes" -> 5
    [] gameType = "gomoku"       -> 5
    [] gameType = "minichess"    -> 10
    [] gameType = "ludo"         -> 6
    [] gameType = "checkers"     -> 5
    [] gameType = "minesweeper"  -> 5
    [] gameType = "memorymatch"  -> 5
    [] gameType = "battleship"   -> 8
    [] OTHER                     -> 0

\* identity of a new object / a new timer handle: the least one not in use
Least(used) == CHOOSE n \in 1..(Cardinality(used) + 1) :
                 n \notin used /\ \A m \in 1..(n - 1) : m \in used

FreshOid(gs, tms) ==
  Least({gs[c].oid : c \in DOMAIN gs} \cup {tms[i].oid : i \in DOMAIN tms})

FreshTid(gs, tms) ==
  Least(({gs[c].timer : c \in DOMAIN gs} \ {0}) \cup {tms[i].tid : i \in DOMAIN tms})

\* drop the pairs with neither callback pending
RECURSIVE Live(_)
Live(tms) ==
  IF tms = <<>> THEN <<>>
  ELSE IF Head(tms).ivl \/ Head(tms).tmo THEN <<Head(tms)>> \o Live(Tail(tms))
  ELSE Live(Tail(tms))

\* clearTimeout(handle): the countdown interval of that pair keeps running
clearTimeout(tms, handle) ==
  Live([i \in DOMAIN tms |->
          IF tms[i].tid = handle THEN [tms[i] EXCEPT !.tmo = FALSE]
          ELSE tms[i]])

\* startTurnTimer(roomCode, duration) on the maps gs and tms
startTurnTimer(gs, tms, code, duration) ==
  IF code \notin DOMAIN gs \/ gs[code].gameOver THEN [gs |-> gs, tms |-> tms]
  ELSE
    LET g    == gs[code]
        tms1 == IF g.timer # 0 THEN clearTimeout(tms, g.timer) ELSE tms
        tid  == FreshTid(gs, tms1)
    IN [gs  |-> [gs EXCEPT ![code] = [g EXCEPT !.timerStarted = TRUE,
                                               !.timeLeft = duration,
                                               !.timer = tid]],
        tms |-> Append(tms1, [tid |-> tid, code |-> code, oid |-> g.oid,
                              dur |-> duration, ivl |-> TRUE, tmo |-> TRUE])]

\* the chain of else-ifs on the game type in makeMove and skipTurn
startTimerFor(gs, tms, code, gameType) ==
  IF TimerDuration(gameType) = 0 THEN [gs |-> gs, tms |-> tms]
  ELSE startTurnTimer(gs, tms, code, TimerDuration(gameType))

\* keep the entries a live countdown still holds
Prune(orph, tms) ==
  [o \in {x \in DOMAIN orph : \E j \in DOMAIN tms : tms[j].oid = x /\ tms[j].ivl} |-> orph[o]]

\* objects that left the Map while a countdown still decrements them
Orphaned(orph, gsOld, gsNew, tms) ==
  LET held  == {tms[i].oid : i \in {j \in DOMAIN tms : tms[j].ivl}}
      alive == {gsNew[c].oid : c \in DOMAIN gsNew}
      was   == [o \in {gsOld[c].oid : c \in DOMAIN gsOld} |->
                  (CHOOSE c \in DOMAIN gsOld : gsOld[c].oid = o)]
  IN [o \in held \ alive |->
        IF o \in DOMAIN orph THEN orph[o] ELSE gsOld[was[o]].timeLeft]

\* ------------------------------------------------------ socket handlers
Connect(s) ==
  /\ Running
  /\ sockets[s] = "new"
  /\ sockets' = [sockets EXCEPT ![s] = "up"]
  /\ out' = <<>>
  /\ last' = Did("connection", s, "", TRUE, FALSE, FALSE)
  /\ UNCHANGED <<rooms, gameStates, timers, orphans, moves>>

\* roomCode is six characters of Math.random: any code, in use or not
CreateRoom(s, roomCode) ==
  /\ Running
  /\ sockets[s] = "up"
  /\ LET room == [code |-> roomCode, host |-> s, players |-> <<s>>,
                  gameSelected |-> Null]
     IN /\ rooms' = (roomCode :> room) @@ rooms
        /\ out' = << [ev |-> "roomCreated", to |-> ToSocket(s),
                      roomCode |-> roomCode, isHost |-> TRUE],
                     [ev |-> "playerJoined", to |-> ToSocket(s),
                      players |-> room.players, roomCode |-> roomCode] >>
  \* a game state left under this code keeps the replaced room's array
  /\ gameStates' = [c \in DOMAIN gameStates |->
                      IF c = roomCode THEN [gameStates[c] EXCEPT !.aliased = FALSE]
                      ELSE gameStates[c]]
  /\ last' = Did("createRoom", s, roomCode, TRUE, FALSE, FALSE)
  /\ UNCHANGED <<sockets, timers, orphans, moves>>

\* a room that takes a third player
RoomIsFullAboveTwo(room) == Len(room.players) > 2

\* room.players.length >= 2
RoomIsFull(room) == Len(room.players) >= 2

JoinRoom(s, roomCode) ==
  /\ Running
  /\ sockets[s] = "up"
  /\ last' = Did("joinRoom", s, roomCode,
                 roomCode \in DOMAIN rooms /\ ~RoomIsFull(rooms[roomCode]), FALSE, FALSE)
  /\ IF roomCode \notin DOMAIN rooms
       THEN /\ out' = << [ev |-> "error", to |-> ToSocket(s),
                          message |-> "Room not found"] >>
            /\ UNCHANGED <<rooms, gameStates>>
     ELSE IF RoomIsFull(rooms[roomCode])
       THEN /\ out' = << [ev |-> "error", to |-> ToSocket(s),
                          message |-> "Room is full"] >>
            /\ UNCHANGED <<rooms, gameStates>>
     ELSE LET players == Append(rooms[roomCode].players, s)
          IN /\ rooms' = [rooms EXCEPT ![roomCode].players = players]
             \* gameState.players is the same array while aliased
             /\ gameStates' = [c \in DOMAIN gameStates |->
                                 IF c = roomCode /\ gameStates[c].aliased
                                 THEN [gameStates[c] EXCEPT !.players = players]
                                 ELSE gameStates[c]]
             /\ out' = << [ev |-> "roomJoined", to |-> ToSocket(s),
                           roomCode |-> roomCode, isHost |-> FALSE],
                          [ev |-> "playerJoined", to |-> ToRoom(roomCode),
                           players |-> players, roomCode |-> roomCode] >>
  /\ UNCHANGED <<sockets, timers, orphans, moves>>

SelectGame(s, roomCode, gameType, seed) ==
  /\ Running
  /\ sockets[s] = "up"
  /\ IF roomCode \notin DOMAIN rooms \/ rooms[roomCode].host # s
       THEN /\ out' = <<>>
            /\ last' = Did("selectGame", s, roomCode, FALSE, FALSE, FALSE)
            /\ UNCHANGED <<rooms, gameStates, orphans>>
     ELSE LET players == rooms[roomCode].players
          IN /\ rooms' = [rooms EXCEPT ![roomCode].gameSelected = gameType]
             /\ IF InitThrows(gameType, players)
                  THEN /\ out' = <<>>
                       /\ last' = Did("selectGame", s, roomCode, TRUE, FALSE, TRUE)
                       /\ UNCHANGED <<gameStates, orphans>>
                ELSE /\ gameStates' =
                          (roomCode :> initializeGameState(
                              FreshOid(gameStates, timers), gameType, players, seed))
                          @@ gameStates
                     /\ orphans' = Orphaned(orphans, gameStates, gameStates', timers)
                     /\ out' = << [ev |-> "gameSelected", to |-> ToRoom(roomCode),
                                   gameType |-> gameType] >>
                     /\ last' = Did("selectGame", s, roomCode, TRUE, FALSE, FALSE)
  /\ UNCHANGED <<sockets, timers, moves>>

RequestGameState(s, roomCode) ==
  /\ Running
  /\ sockets[s] = "up"
  /\ out' = IF roomCode \in DOMAIN gameStates
            THEN << [ev |-> "gameUpdate", to |-> ToSocket(s),
                     gameState |-> gameStates[roomCode], valid |-> TRUE] >>
            ELSE <<>>
  /\ last' = Did("requestGameState", s, roomCode, roomCode \in DOMAIN gameStates,
                 FALSE, FALSE)
  /\ UNCHANGED <<sockets, rooms, gameStates, timers, orphans, moves>>

\* the codes of a set in the order of CodeOrder (the Map's iteration order is
\* its insertion order, which the model does not keep)
InOrder(cs) == SelectSeq(CodeOrder, LAMBDA c : c \in cs)

\* clearTimeout for every deleted room whose game state holds a handle
RECURSIVE ClearAll(_, _)
ClearAll(tms, handles) ==
  IF handles = {} THEN tms
  ELSE LET h == CHOOSE x \in handles : TRUE
       IN ClearAll(clearTimeout(tms, h), handles \ {h})

\* a registry that keeps the rooms its last player left
RoomNeverEmpty(players) == FALSE

\* a registry that drops every room a disconnect visits
RoomAlwaysEmpty(players) == TRUE

\* room.players.length === 0, after the filter
RoomEmpty(players) == Len(players) = 0

Disconnect(s) ==
  /\ Running
  /\ sockets[s] = "up"
  /\ sockets' = [sockets EXCEPT ![s] = "gone"]
  /\ LET left(c) == Without(rooms[c].players, s)
         kept    == {c \in DOMAIN rooms : ~RoomEmpty(left(c))}
         deleted == DOMAIN rooms \ kept
         order   == InOrder(kept)
     IN /\ rooms' = [c \in kept |-> [rooms[c] EXCEPT !.players = left(c)]]
        \* filter() gives every room a new array: no game state shares it now
        /\ gameStates' = [c \in DOMAIN gameStates \ deleted |->
                            IF c \in kept
                            THEN [gameStates[c] EXCEPT !.aliased = FALSE]
                            ELSE gameStates[c]]
        /\ timers' = ClearAll(timers,
                       {gameStates[c].timer : c \in deleted \cap DOMAIN gameStates} \ {0})
        /\ orphans' = Orphaned(orphans, gameStates, gameStates', timers')
        /\ out' = [i \in DOMAIN order |->
                     [ev |-> "playerLeft", to |-> ToRoom(order[i]),
                      players |-> left(order[i])]]
  /\ last' = Did("disconnect", s, "", TRUE, FALSE, FALSE)
  /\ UNCHANGED moves


\* --------------------------------------------------------- move handlers
\* handlers without the turn test
WrongTurnIgnored(gs, playerId) == FALSE

\* gameState.currentPlayer !== playerId, the first test of every handler but
\* processBattleshipSetup
WrongTurn(gs, playerId) == gs.currentPlayer # playerId

\* if (gameState.timer) { clearTimeout(gameState.timer); gameState.timer = null; }
\* (the clearTimeout itself is applied to timers by MakeMove)
clearTimer(gs) == [gs EXCEPT !.timer = 0]

\* gameState.currentPlayer = gameState.players[1 - currentIndex].id; return valid
\* reading .id of a missing player throws
SwitchTurn(gs, playerId, extra) ==
  LET nxt == PlayerId(gs.players, 1 - findIndex(gs.players, playerId))
  IN IF nxt = Undef THEN Throw(gs)
     ELSE Acc([gs EXCEPT !.currentPlayer = nxt], extra)

\* a winner check that looks at the rows only
winPatternsRows == { <<0, 1, 2>>, <<3, 4, 5>>, <<6, 7, 8>> }

winPatterns ==
  { <<0, 1, 2>>, <<3, 4, 5>>, <<6, 7, 8>>,
    <<0, 3, 6>>, <<1, 4, 7>>, <<2, 5, 8>>,
    <<0, 4, 8>>, <<2, 4, 6>> }

processTicTacToeMove(gs, move, playerId) ==
  IF WrongTurn(gs, playerId) \/ At(gs.board, move.index) # Null \/ gs.gameOver
  THEN Rej(gs)
  ELSE
    LET symbol == IF findIndex(gs.players, playerId) = 0 THEN "X" ELSE "O"
        g1 == [clearTimer(gs) EXCEPT !.board[move.index] = symbol,
                                     !.firstMoveMade = TRUE]
    IN IF \E p \in winPatterns : \A k \in 1..3 : g1.board[p[k]] = symbol
       THEN Acc([g1 EXCEPT !.winner = playerId, !.gameOver = TRUE], {"winner"})
       ELSE IF \A i \in DOMAIN g1.board : g1.board[i] # Null
       THEN Acc([g1 EXCEPT !.gameOver = TRUE], {"draw"})
       ELSE SwitchTurn(g1, playerId, {})


\* board[r][c] of a grid: Undef when the column is outside the row.  The row
\* must exist: callers test HasRow first, as reading a column of a missing
\* row is the TypeError.
HasRow(board, r) == r \in DOMAIN board
Cell(board, r, c) == At(board[r], c)

\* the inner loops of checkConnect4Winner / checkGomokuWinner: contiguous cells
\* holding symbol at steps i, i+1, ..., n-1 from (row, col) along (dr, dc)
RECURSIVE Run(_, _, _, _, _, _, _, _)
Run(board, row, col, symbol, dr, dc, i, n) ==
  IF i >= n THEN 0
  ELSE LET r == row + dr * i
           c == col + dc * i
       IN IF HasRow(board, r) /\ c \in DOMAIN board[r] /\ board[r][c] = symbol
          THEN 1 + Run(board, row, col, symbol, dr, dc, i + 1, n)
          ELSE 0

\* a winner check without the diagonals
directionsStraight == { <<0, 1>>, <<1, 0>> }

directions == { <<0, 1>>, <<1, 0>>, <<1, 1>>, <<1, -1>> }

\* count >= n for some direction, counting at most n-1 cells each way
InARow(board, row, col, symbol, n) ==
  \E d \in directions :
     1 + Run(board, row, col, symbol, d[1], d[2], 1, n)
       + Run(board, row, col, symbol, -d[1], -d[2], 1, n) >= n

checkConnect4Winner(board, row, col, symbol) == InARow(board, row, col, symbol, 4)

checkGomokuWinner(board, row, col, symbol) == InARow(board, row, col, symbol, 5)

\* a scan from row 0 upwards
HighestEmptyRow(board, col) ==
  LET empty == {r \in 0..5 : Cell(board, r, col) = Null}
  IN IF empty = {} THEN -1 ELSE CHOOSE r \in empty : \A q \in empty : q >= r

\* for (r = 5; r >= 0; r--) if (board[r][col] === null) { row = r; break; }
LowestEmptyRow(board, col) ==
  LET empty == {r \in 0..5 : Cell(board, r, col) = Null}
  IN IF empty = {} THEN -1 ELSE CHOOSE r \in empty : \A q \in empty : q <= r

processConnect4Move(gs, move, playerId) ==
  IF WrongTurn(gs, playerId) THEN Rej(gs)
  ELSE
    LET col    == move.column
        symbol == IF findIndex(gs.players, playerId) = 0 THEN "R" ELSE "Y"
        row    == LowestEmptyRow(gs.board, col)
    IN IF row = -1 THEN Rej(gs)
       ELSE
         LET g1 == [gs EXCEPT !.board[row][col] = symbol]
         IN IF checkConnect4Winner(g1.board, row, col, symbol)
            THEN Acc([g1 EXCEPT !.winner = playerId, !.gameOver = TRUE], {"winner"})
            ELSE SwitchTurn(g1, playerId, {})

processGomokuMove(gs, move, playerId) ==
  IF WrongTurn(gs, playerId) \/ gs.gameOver THEN Rej(gs)
  ELSE
    LET g0  == clearTimer(gs)
        row == move.index \div 15
        col == move.index % 15
    IN IF ~HasRow(g0.board, row) THEN Throw(g0)
       ELSE IF Cell(g0.board, row, col) # Null THEN Rej(g0)
       ELSE
         LET symbol == IF findIndex(g0.players, playerId) = 0 THEN "black" ELSE "white"
             g1 == [g0 EXCEPT !.board[row][col] = symbol, !.firstMoveMade = TRUE]
         IN IF checkGomokuWinner(g1.board, row, col, symbol)
            THEN Acc([g1 EXCEPT !.winner = playerId, !.gameOver = TRUE],
                     {"winner", "winningLine"})
            ELSE IF \A r \in DOMAIN g1.board : \A c \in DOMAIN g1.board[r] :
                       g1.board[r][c] # Null
            THEN Acc([g1 EXCEPT !.gameOver = TRUE], {"draw"})
            ELSE SwitchTurn(g1, playerId, {})

\* ---- dots and boxes
\* the four sides of box (row, col) are drawn
BoxClosed(b, row, col) ==
  /\ b.horizontalLines[row][col]
  /\ b.horizontalLines[row + 1][col]
  /\ b.verticalLines[row][col]
  /\ b.verticalLines[row][col + 1]

\* a check that never finds a closed box
checkCompletedBoxesNone(b) == {}

\* checkCompletedBoxes: the unclaimed boxes that are now closed
checkCompletedBoxes(b) ==
  {rc \in (0..2) \X (0..2) : b.boxes[rc[1]][rc[2]] = Null /\ BoxClosed(b, rc[1], rc[2])}

processDotsAndBoxesMove(gs, move, playerId) ==
  IF WrongTurn(gs, playerId) \/ gs.gameOver THEN Rej(gs)
  ELSE
    LET g0 == clearTimer(gs)
        lines == IF move.type = "horizontal" THEN g0.board.horizontalLines
                 ELSE g0.board.verticalLines
        linePlaced ==
          /\ move.type \in {"horizontal", "vertical"}
          /\ move.row >= 0 /\ move.row < Cardinality(DOMAIN lines)
          /\ move.col >= 0 /\ move.col < Cardinality(DOMAIN lines[move.row])
          /\ ~lines[move.row][move.col]
    IN IF ~linePlaced THEN Rej(g0)
       ELSE
         LET b1 == IF move.type = "horizontal"
                   THEN [g0.board EXCEPT !.horizontalLines[move.row][move.col] = TRUE]
                   ELSE [g0.board EXCEPT !.verticalLines[move.row][move.col] = TRUE]
             completed == checkCompletedBoxes(b1)
             n == Cardinality(completed)
             playerIndex == findIndex(g0.players, playerId)
             playerSymbol == IF playerIndex = 0 THEN "P1" ELSE "P2"
             playerKey == IF playerIndex = 0 THEN "player1" ELSE "player2"
             b2 == [b1 EXCEPT !.boxes = [r \in 0..2 |-> [c \in 0..2 |->
                                  IF <<r, c>> \in completed THEN playerSymbol
                                  ELSE b1.boxes[r][c]]]]
             g1 == [g0 EXCEPT !.board = b2, !.firstMoveMade = TRUE]
             nxt == PlayerId(g1.players, 1 - playerIndex)
         IN IF n = 0 /\ nxt = Undef THEN Throw(g1)
            ELSE
              LET g2 == IF n > 0
                        THEN [g1 EXCEPT !.board.scores[playerKey] = @ + n,
                                        !.board.completedBoxes = @ + n]
                        ELSE [g1 EXCEPT !.currentPlayer = nxt]
                  p1 == g2.board.scores.player1
                  p2 == g2.board.scores.player2
                  g3 == IF g2.board.completedBoxes < g2.board.totalBoxes THEN g2
                        ELSE IF p1 > p2
                        THEN [g2 EXCEPT !.gameOver = TRUE, !.winner = PlayerId(g2.players, 0)]
                        ELSE IF p2 > p1
                        THEN [g2 EXCEPT !.gameOver = TRUE, !.winner = PlayerId(g2.players, 1)]
                        ELSE [g2 EXCEPT !.gameOver = TRUE, !.draw = TRUE]
              IN Acc(g3, (IF n > 0 THEN {"boxesCompleted"} ELSE {})
                         \cup (IF g3.winner # Null THEN {"winner"} ELSE {})
                         \cup (IF g3.draw THEN {"draw"} ELSE {}))


\* ---- ludo
canPlayerMove(board, playerKey, diceValue) ==
  \E i \in DOMAIN board.players[playerKey].pieces :
     LET currentPosition == board.players[playerKey].pieces[i]
     IN \/ currentPosition = 0 /\ diceValue = 6
        \/ currentPosition > 0 /\ currentPosition + diceValue <= 57

\* move.rand is the value Math.floor(Math.random() * 6) + 1 takes
processLudoMove(gs, move, playerId) ==
  IF WrongTurn(gs, playerId) \/ gs.gameOver THEN Rej(gs)
  ELSE
    LET g0 == clearTimer(gs)
        playerKey == IF findIndex(g0.players, playerId) = 0 THEN "player1" ELSE "player2"
    IN IF move.action = "rollDice"
       THEN LET g1 == [g0 EXCEPT !.board.diceValue = move.rand,
                                 !.board.diceRolled = TRUE,
                                 !.firstMoveMade = TRUE]
            IN IF canPlayerMove(g1.board, playerKey, g1.board.diceValue)
               THEN Acc(g1, {})
               ELSE SwitchTurn([g1 EXCEPT !.board.diceRolled = FALSE], playerId, {})
       ELSE IF move.action = "movePiece" /\ g0.board.diceRolled
       THEN LET pieces == g0.board.players[playerKey].pieces
                pieceIndex == move.pieceIndex
            IN IF pieceIndex < 0 \/ pieceIndex >= Cardinality(DOMAIN pieces) THEN Rej(g0)
               ELSE
                 LET currentPosition == pieces[pieceIndex]
                     dice == g0.board.diceValue
                 IN IF currentPosition = 0 /\ dice # 6 THEN Rej(g0)
                    ELSE
                      LET raw == IF currentPosition = 0 THEN 1 ELSE currentPosition + dice
                          newPosition == IF raw >= 57 THEN 57 ELSE raw
                          g1 == [g0 EXCEPT
                                   !.board.players[playerKey].home =
                                       IF raw >= 57 THEN @ + 1 ELSE @,
                                   !.board.players[playerKey].pieces[pieceIndex] = newPosition,
                                   !.board.diceRolled = FALSE]
                      IN IF g1.board.players[playerKey].home >= 2
                         THEN Acc([g1 EXCEPT !.winner = playerId, !.gameOver = TRUE],
                                  {"winner"})
                         ELSE IF dice # 6 THEN SwitchTurn(g1, playerId, {})
                         ELSE Acc(g1, {})
       ELSE Rej(g0)

\* ---- mini chess
\* piece === piece.toUpperCase()
IsUpper(piece) == piece \in {"P", "R", "N", "K"}

\* piece.toLowerCase()
Lower(piece) ==
  CASE piece \in {"P", "p"} -> "p"
    [] piece \in {"R", "r"} -> "r"
    [] piece \in {"N", "n"} -> "n"
    [] piece \in {"K", "k"} -> "k"
    [] OTHER -> piece

Abs(x) == IF x < 0 THEN -x ELSE x
Sign(x) == IF x = 0 THEN 0 ELSE IF x < 0 THEN -1 ELSE 1

\* the cells strictly between from and to along a rank or file are empty
isPathClear(board, fromRow, fromCol, toRow, toCol) ==
  LET stepRow == Sign(toRow - fromRow)
      stepCol == Sign(toCol - fromCol)
      n == IF Abs(toRow - fromRow) > Abs(toCol - fromCol)
           THEN Abs(toRow - fromRow) ELSE Abs(toCol - fromCol)
  IN \A k \in 1..(n - 1) : board[fromRow + stepRow * k][fromCol + stepCol * k] = Null

isValidChessMove(board, fromRow, fromCol, toRow, toCol) ==
  LET from == board[fromRow][fromCol]
      piece == Lower(from)
      deltaRow == toRow - fromRow
      deltaCol == toCol - fromCol
      targetPiece == board[toRow][toCol]
      direction == IF IsUpper(from) THEN 1 ELSE -1
  IN IF targetPiece # Null /\ IsUpper(from) = IsUpper(targetPiece) THEN FALSE
     ELSE CASE piece = "p" ->
                 IF deltaCol = 0 /\ targetPiece = Null THEN deltaRow = direction
                 ELSE IF Abs(deltaCol) = 1 /\ targetPiece # Null THEN deltaRow = direction
                 ELSE FALSE
            [] piece = "r" ->
                 IF deltaRow = 0 \/ deltaCol = 0
                 THEN isPathClear(board, fromRow, fromCol, toRow, toCol)
                 ELSE FALSE
            [] piece = "n" ->
                 \/ Abs(deltaRow) = 2 /\ Abs(deltaCol) = 1
                 \/ Abs(deltaRow) = 1 /\ Abs(deltaCol) = 2
            [] piece = "k" -> Abs(deltaRow) <= 1 /\ Abs(deltaCol) <= 1
            [] OTHER -> FALSE

processMiniChessMove(gs, move, playerId) ==
  IF WrongTurn(gs, playerId) \/ gs.gameOver THEN Rej(gs)
  ELSE
    LET g0 == clearTimer(gs)
        fromRow == move.fromRow
        fromCol == move.fromCol
        toRow == move.toRow
        toCol == move.toCol
    IN IF \/ fromRow < 0 \/ fromRow >= 5 \/ fromCol < 0 \/ fromCol >= 5
          \/ toRow < 0 \/ toRow >= 5 \/ toCol < 0 \/ toCol >= 5
       THEN Rej(g0)
       ELSE
         LET piece == g0.board[fromRow][fromCol]
             targetPiece == g0.board[toRow][toCol]
             isWhitePlayer == findIndex(g0.players, playerId) = 0
         IN IF piece = Null THEN Rej(g0)
            ELSE IF isWhitePlayer # IsUpper(piece) THEN Rej(g0)
            ELSE IF ~isValidChessMove(g0.board, fromRow, fromCol, toRow, toCol) THEN Rej(g0)
            ELSE
              LET g1 == [g0 EXCEPT !.firstMoveMade = TRUE,
                                   !.board = [[g0.board EXCEPT ![toRow][toCol] = piece]
                                                EXCEPT ![fromRow][fromCol] = Null]]
              IN IF targetPiece # Null /\ Lower(targetPiece) = "k"
                 THEN Acc([g1 EXCEPT !.winner = playerId, !.gameOver = TRUE], {"winner"})
                 ELSE SwitchTurn(g1, playerId, {})

\* ---- memory match
processMemoryMatchMove(gs, move, playerId) ==
  IF WrongTurn(gs, playerId) \/ gs.gameOver THEN Rej(gs)
  ELSE
    LET g0 == clearTimer(gs)
        cardIndex == move.cardIndex
    IN IF cardIndex \notin DOMAIN g0.board.cards THEN Rej(g0)   \* !card
       ELSE IF g0.board.cards[cardIndex].flipped \/ g0.board.cards[cardIndex].matched
       THEN Rej(g0)
       ELSE
         LET g1 == [g0 EXCEPT !.firstMoveMade = TRUE,
                              !.board.cards[cardIndex].flipped = TRUE,
                              !.board.flippedCards = Append(@, cardIndex)]
             fl == g1.board.flippedCards
         IN IF Len(fl) # 2 THEN Acc(g1, {})
            ELSE IF g1.board.cards[fl[1]].value # g1.board.cards[fl[2]].value
            THEN Acc(g1, {"noMatch"})
            ELSE
              LET playerKey == IF findIndex(g1.players, playerId) = 0 THEN "player1"
                               ELSE "player2"
                  g2 == [g1 EXCEPT !.board.cards[fl[1]].matched = TRUE,
                                   !.board.cards[fl[2]].matched = TRUE,
                                   !.board.scores[playerKey] = @ + 1,
                                   !.board.flippedCards = <<>>]
                  p1 == g2.board.scores.player1
                  p2 == g2.board.scores.player2
                  g3 == IF \E i \in DOMAIN g2.board.cards : ~g2.board.cards[i].matched
                        THEN g2
                        ELSE IF p1 > p2
                        THEN [g2 EXCEPT !.gameOver = TRUE, !.winner = PlayerId(g2.players, 0)]
                        ELSE IF p2 > p1
                        THEN [g2 EXCEPT !.gameOver = TRUE, !.winner = PlayerId(g2.players, 1)]
                        ELSE [g2 EXCEPT !.gameOver = TRUE, !.draw = TRUE]
              IN Acc(g3, {"matched"})


\* ---- minesweeper
calculateNeighborMines(board, row, col) ==
  Cardinality({d \in (-1..1) \X (-1..1) :
                 /\ d # <<0, 0>>
                 /\ row + d[1] >= 0 /\ row + d[1] < 8
                 /\ col + d[2] >= 0 /\ col + d[2] < 8
                 /\ board[row + d[1]][col + d[2]].isMine})

processMinesweeperMove(gs, move, playerId) ==
  IF WrongTurn(gs, playerId) \/ gs.gameOver THEN Rej(gs)
  ELSE
    LET g0 == clearTimer(gs)
        row == move.row
        col == move.col
    IN \* board[row][col] of a missing row, cell.isRevealed of a missing cell
       IF ~HasRow(g0.board.board, row) \/ col \notin DOMAIN g0.board.board[row]
       THEN Throw(g0)
       ELSE IF g0.board.board[row][col].isRevealed THEN Rej(g0)
       ELSE
         LET g1 == [g0 EXCEPT !.firstMoveMade = TRUE,
                              !.board.board[row][col].isRevealed = TRUE,
                              !.board.board[row][col].revealedBy = playerId]
             currentIndex == findIndex(g1.players, playerId)
         IN IF g1.board.board[row][col].isMine
            THEN LET other == PlayerId(g1.players, 1 - currentIndex)
                 IN IF other = Undef THEN Throw([g1 EXCEPT !.gameOver = TRUE])
                    ELSE Acc([g1 EXCEPT !.gameOver = TRUE, !.winner = other],
                             {"hitMine", "winner"})
            ELSE
              LET playerKey == IF currentIndex = 0 THEN "player1" ELSE "player2"
                  g2 == [g1 EXCEPT !.board.board[row][col].neighborCount =
                                       calculateNeighborMines(g1.board.board, row, col),
                                   !.board.scores[playerKey] = @ + 1]
                  revealedSafeCells ==
                    Cardinality({rc \in (0..7) \X (0..7) :
                                   /\ g2.board.board[rc[1]][rc[2]].isRevealed
                                   /\ ~g2.board.board[rc[1]][rc[2]].isMine})
                  p1 == g2.board.scores.player1
                  p2 == g2.board.scores.player2
              IN IF revealedSafeCells = 64 - 10
                 THEN Acc(IF p1 > p2
                          THEN [g2 EXCEPT !.gameOver = TRUE, !.winner = PlayerId(g2.players, 0)]
                          ELSE IF p2 > p1
                          THEN [g2 EXCEPT !.gameOver = TRUE, !.winner = PlayerId(g2.players, 1)]
                          ELSE [g2 EXCEPT !.gameOver = TRUE, !.draw = TRUE], {})
                 ELSE SwitchTurn(g2, playerId, {})

\* ---- checkers (the second definition of processCheckersMove: a function
\* declaration repeated in one scope, the later one is the one bound)
\* piece.includes(color)
Includes(piece, color) ==
  \/ color = "red" /\ piece \in {"red", "red-king"}
  \/ color = "black" /\ piece \in {"black", "black-king"}
  \/ color = "king" /\ piece \in {"red-king", "black-king"}

\* "ok", "no", or "throw" when board[toRow] does not exist
isValidCheckersMove(board, fromRow, fromCol, toRow, toCol, playerColor) ==
  LET deltaRow == toRow - fromRow
      deltaCol == Abs(toCol - fromCol)
      piece == board[fromRow][fromCol]
      opponentColor == IF playerColor = "red" THEN "black" ELSE "red"
  IN IF Abs(deltaRow) # deltaCol THEN "no"
     ELSE IF ~HasRow(board, toRow) THEN "throw"
     ELSE IF Cell(board, toRow, toCol) # Null THEN "no"
     ELSE IF ~Includes(piece, "king") /\ playerColor = "red" /\ deltaRow > 0 THEN "no"
     ELSE IF ~Includes(piece, "king") /\ playerColor = "black" /\ deltaRow < 0 THEN "no"
     ELSE IF Abs(deltaRow) = 1 THEN "ok"
     ELSE IF Abs(deltaRow) = 2
     THEN LET midPiece == board[fromRow + deltaRow \div 2][fromCol + (toCol - fromCol) \div 2]
          IN IF midPiece # Null /\ Includes(midPiece, opponentColor) THEN "ok" ELSE "no"
     ELSE "no"

\* a jump that leaves the piece jumped over on the board
checkForCaptureNone(board, fromRow, fromCol, toRow, toCol) == board

\* checkForCapture: a move by two rows empties the cell in between
checkForCapture(board, fromRow, fromCol, toRow, toCol) ==
  IF Abs(toRow - fromRow) = 2
  THEN [board EXCEPT ![fromRow + (toRow - fromRow) \div 2]
                      [fromCol + (toCol - fromCol) \div 2] = Null]
  ELSE board

processCheckersMove(gs, move, playerId) ==
  IF WrongTurn(gs, playerId) \/ gs.gameOver THEN Rej(gs)
  ELSE
    LET g0 == clearTimer(gs)
        fromRow == move.fromRow
        fromCol == move.fromCol
        toRow == move.toRow
        toCol == move.toCol
    IN IF ~HasRow(g0.board, fromRow) THEN Throw(g0)
       ELSE
         LET piece == Cell(g0.board, fromRow, fromCol)
             playerColor == IF findIndex(g0.players, playerId) = 0 THEN "red" ELSE "black"
             opponentColor == IF playerColor = "red" THEN "black" ELSE "red"
         IN IF piece \in {Null, Undef} THEN Rej(g0)
            ELSE IF ~Includes(piece, playerColor) THEN Rej(g0)
            ELSE
              LET ok == isValidCheckersMove(g0.board, fromRow, fromCol, toRow, toCol,
                                            playerColor)
              IN IF ok = "throw" THEN Throw(g0)
                 ELSE IF ok = "no" THEN Rej(g0)
                 ELSE
                   LET b1 == [[g0.board EXCEPT ![toRow][toCol] = piece]
                                EXCEPT ![fromRow][fromCol] = Null]
                       b2 == checkForCapture(b1, fromRow, fromCol, toRow, toCol)
                       b3 == IF \/ playerColor = "red" /\ toRow = 0
                                \/ playerColor = "black" /\ toRow = 7
                             THEN [b2 EXCEPT ![toRow][toCol] =
                                     IF playerColor = "red" THEN "red-king" ELSE "black-king"]
                             ELSE b2
                       g1 == [g0 EXCEPT !.firstMoveMade = TRUE, !.board = b3]
                   IN IF \A r \in 0..7 : \A c \in 0..7 :
                            b3[r][c] = Null \/ ~Includes(b3[r][c], opponentColor)
                      THEN Acc([g1 EXCEPT !.winner = playerId, !.gameOver = TRUE], {"winner"})
                      ELSE SwitchTurn(g1, playerId,
                                      IF Abs(toRow - fromRow) = 2 THEN {"captured"} ELSE {})


\* ---- battleship (the later definition of processBattleshipMove)
\* the count of ships alone
validateShipPlacementLength(ships) == Len(ships) = 5

\* ships.length === 5 and the sizes, sorted descending, are [5, 4, 3, 3, 2]
validateShipPlacement(ships) ==
  /\ Len(ships) = 5
  /\ \A k \in {Len(ships[i].positions) : i \in DOMAIN ships} \cup {2, 3, 4, 5} :
        Cardinality({i \in DOMAIN ships : Len(ships[i].positions) = k})
          = (IF k = 3 THEN 2 ELSE IF k \in {2, 4, 5} THEN 1 ELSE 0)

\* some position of the ship is a 'hit' in shots
ShipSunkAny(ship, shots) ==
  \E j \in DOMAIN ship.positions :
     At(shots, ship.positions[j].row * 10 + ship.positions[j].col) = "hit"

\* every position of the ship is a 'hit' in shots
ShipSunk(ship, shots) ==
  \A j \in DOMAIN ship.positions :
     At(shots, ship.positions[j].row * 10 + ship.positions[j].col) = "hit"

\* a move of kind "shot" has no key ships: ships.length throws
processBattleshipSetup(gs, move, playerId) ==
  IF playerId \notin DOMAIN gs.board THEN Rej(gs)
  ELSE IF move.kind # "fleet" THEN Throw(gs)
  ELSE IF ~validateShipPlacement(move.ships) THEN Rej(gs)
  ELSE
    LET g1 == [gs EXCEPT !.board[playerId].ships = move.ships]
        allPlayersReady ==
          \A i \in DOMAIN g1.players :
             /\ g1.players[i] \in DOMAIN g1.board
             /\ Len(g1.board[g1.players[i]].ships) > 0
    IN IF allPlayersReady
       THEN Acc([g1 EXCEPT !.phase = "playing", !.firstMoveMade = TRUE], {"phase"})
       ELSE Acc(g1, {"phase"})

\* a move of kind "fleet" has no row and col: the shot index is NaN, and
\* shots[NaN] is undefined (here: index -1)
processBattleshipShot(gs, move, playerId) ==
  IF WrongTurn(gs, playerId) \/ gs.gameOver THEN Rej(gs)
  ELSE
    LET g0 == clearTimer(gs)
        row == IF move.kind = "shot" THEN move.row ELSE 0
        col == IF move.kind = "shot" THEN move.col ELSE -1
        opponentId == PlayerId(g0.players, 1 - findIndex(g0.players, playerId))
        shotIndex == row * 10 + col
    IN IF opponentId = Undef \/ playerId \notin DOMAIN g0.board THEN Throw(g0)
       ELSE IF At(g0.board[playerId].shots, shotIndex) # Null THEN Rej(g0)
       ELSE
         LET ships == g0.board[opponentId].ships
             hit == \E i \in DOMAIN ships : \E j \in DOMAIN ships[i].positions :
                       ships[i].positions[j].row = row /\ ships[i].positions[j].col = col
             g1 == [g0 EXCEPT !.board[playerId].shots[shotIndex] =
                                  IF hit THEN "hit" ELSE "miss"]
             shots == g1.board[playerId].shots
             sunk == IF hit /\ \E i \in DOMAIN ships : ShipSunk(ships[i], shots)
                     THEN {"sunk"} ELSE {}
         IN IF hit /\ \A i \in DOMAIN ships : ShipSunk(ships[i], shots)
            THEN Acc([g1 EXCEPT !.winner = playerId, !.gameOver = TRUE],
                     {"hit", "winner"} \cup sunk)
            ELSE Acc([g1 EXCEPT !.currentPlayer = opponentId],
                     (IF hit THEN {"hit"} ELSE {}) \cup sunk)

processBattleshipMove(gs, move, playerId) ==
  IF gs.phase = "setup" THEN processBattleshipSetup(gs, move, playerId)
  ELSE processBattleshipShot(gs, move, playerId)

\* the switch on the game type the client sent
processMove(gs, move, playerId, gameType) ==
  CASE gameType = "tictactoe"    -> processTicTacToeMove(gs, move, playerId)
    [] gameType = "connect4"     -> processConnect4Move(gs, move, playerId)
    [] gameType = "checkers"     -> processCheckersMove(gs, move, playerId)
    [] gameType = "battleship"   -> processBattleshipMove(gs, move, playerId)
    [] gameType = "gomoku"       -> processGomokuMove(gs, move, playerId)
    [] gameType = "dotsandboxes" -> processDotsAndBoxesMove(gs, move, playerId)
    [] gameType = "ludo"         -> processLudoMove(gs, move, playerId)
    [] gameType = "minichess"    -> processMiniChessMove(gs, move, playerId)
    [] gameType = "memorymatch"  -> processMemoryMatchMove(gs, move, playerId)
    [] gameType = "minesweeper"  -> processMinesweeperMove(gs, move, playerId)
    [] OTHER                     -> Rej(gs)


\* ------------------------------------------------- makeMove and callbacks
GameUpdate(code, gs, valid, extra) ==
  [ev |-> "gameUpdate", to |-> ToRoom(code), gameState |-> gs, valid |-> valid,
   extra |-> extra]

\* an emit outside the if
BroadcastsAlways(res) == TRUE

\* if (result.valid) { ... io.to(roomCode).emit('gameUpdate', result) ... }
Broadcasts(res) == res.valid

MakeMove(s, roomCode, move, gameType) ==
  /\ Running
  /\ sockets[s] = "up"
  /\ IF roomCode \notin DOMAIN gameStates
       THEN /\ out' = <<>>
            /\ last' = DidMove(s, roomCode, move, gameType, FALSE, FALSE, FALSE)
            /\ UNCHANGED <<gameStates, timers, moves>>
     ELSE
       LET gs   == gameStates[roomCode]
           res  == processMove(gs, move, s, gameType)
           \* the handler mutates the stored object, whatever it returns
           gs1  == [gameStates EXCEPT ![roomCode] = res.gs]
           tms1 == IF gs.timer # 0 /\ res.gs.timer = 0
                   THEN clearTimeout(timers, gs.timer) ELSE timers
           st   == IF res.valid /\ ~res.gs.gameOver /\ res.gs.firstMoveMade
                   THEN startTimerFor(gs1, tms1, roomCode, gameType)
                   ELSE [gs |-> gs1, tms |-> tms1]
       IN /\ gameStates' = st.gs
          /\ timers' = st.tms
          /\ out' = IF Broadcasts(res)
                    THEN << GameUpdate(roomCode, res.gs, res.valid, res.extra) >>
                    ELSE <<>>
          /\ last' = DidMove(s, roomCode, move, gameType, TRUE, res.valid, res.error)
          /\ moves' = IF res.valid THEN moves + 1 ELSE moves
  /\ UNCHANGED <<sockets, rooms, orphans>>

\* The callbacks are not timed: a countdown may tick, and a timeout may fire,
\* whenever it is pending.
\* the setInterval callback of the i-th live pair
Tick(i) ==
  /\ Running
  /\ i \in DOMAIN timers
  /\ timers[i].ivl
  /\ LET t    == timers[i]
         home == {c \in DOMAIN gameStates : gameStates[c].oid = t.oid}
         old  == IF home # {} THEN gameStates[CHOOSE c \in home : TRUE].timeLeft
                 ELSE orphans[t.oid]
         new  == old - 1
         \* if (gameState.timeLeft <= 0) clearInterval(countdown)
         t1   == [t EXCEPT !.ivl = new > 0]
     IN /\ gameStates' = [c \in DOMAIN gameStates |->
                            IF c \in home THEN [gameStates[c] EXCEPT !.timeLeft = new]
                            ELSE gameStates[c]]
        /\ timers' = Live([timers EXCEPT ![i] = t1])
        /\ orphans' = Prune([o \in DOMAIN orphans |->
                               IF o = t.oid THEN new ELSE orphans[o]], timers')
        /\ out' = << [ev |-> "timerUpdate", to |-> ToRoom(t.code), timeLeft |-> new] >>
        /\ last' = Did("tick", "", t.code, TRUE, FALSE, FALSE)
  /\ UNCHANGED <<sockets, rooms, moves>>

RemoveAt(seq, i) == [j \in 1..(Len(seq) - 1) |-> IF j < i THEN seq[j] ELSE seq[j + 1]]

\* the setTimeout callback of the i-th live pair: clearInterval(countdown);
\* skipTurn(roomCode)
Expire(i) ==
  /\ Running
  /\ i \in DOMAIN timers
  /\ timers[i].tmo
  /\ LET code == timers[i].code
         tms0 == RemoveAt(timers, i)
     IN IF code \notin DOMAIN gameStates \/ gameStates[code].gameOver
          THEN /\ timers' = tms0
               /\ out' = <<>>
               /\ last' = Did("expiry", "", code, FALSE, FALSE, FALSE)
               /\ UNCHANGED gameStates
        ELSE
          LET gs  == gameStates[code]
              nxt == PlayerId(gs.players, 1 - findIndex(gs.players, gs.currentPlayer))
          IN IF nxt = Undef
               THEN /\ timers' = tms0
                    /\ out' = <<>>
                    /\ last' = Did("expiry", "", code, TRUE, FALSE, TRUE)
                    /\ UNCHANGED gameStates
             ELSE
               LET g1 == [gs EXCEPT !.currentPlayer = nxt, !.timer = 0,
                                    !.timerStarted = FALSE]
                   st == startTimerFor([gameStates EXCEPT ![code] = g1], tms0, code,
                                       gs.gameType)
               IN /\ gameStates' = st.gs
                  /\ timers' = st.tms
                  /\ out' = << GameUpdate(code, g1, TRUE, {"turnSkipped"}) >>
                  /\ last' = Did("expiry", "", code, TRUE, FALSE, FALSE)
  /\ orphans' = Prune(orphans, timers')
  /\ UNCHANGED <<sockets, rooms, moves>>

\* ------------------------------------------------------------ the system
Init ==
  /\ sockets = [s \in Sockets |-> "new"]
  /\ rooms = <<>>
  /\ gameStates = <<>>
  /\ timers = <<>>
  /\ orphans = <<>>
  /\ moves = 0
  /\ out = <<>>
  /\ last = Did("listen", "", "", TRUE, FALSE, FALSE)


\* ------------------------------------------------- the clients' messages
Ship(row, size) == [positions |-> [j \in 1..size |-> [row |-> row, col |-> j - 1]]]

\* five ships of sizes 5, 4, 3, 3, 2 on rows 0..4, from column 0
GoodFleet == << Ship(0, 5), Ship(1, 4), Ship(2, 3), Ship(3, 3), Ship(4, 2) >>

\* five ships, sizes 5, 4, 3, 2, 2
BadFleet == << Ship(0, 5), Ship(1, 4), Ship(2, 3), Ship(3, 2), Ship(4, 2) >>

Fleet(ships) == [kind |-> "fleet", ships |-> ships, row |-> 0, col |-> 0]
Shot(row, col) == [kind |-> "shot", ships |-> <<>>, row |-> row, col |-> col]
Line(type, row, col) == [type |-> type, row |-> row, col |-> col]
Step(fromRow, fromCol, toRow, toCol) ==
  [fromRow |-> fromRow, fromCol |-> fromCol, toRow |-> toRow, toCol |-> toCol]

\* the move objects clients send for a game type: legal moves, moves onto
\* taken cells, moves that break a piece rule and moves outside the board
Moves(gameType) ==
  CASE gameType = "tictactoe"    -> {[index |-> i] : i \in {0, 1, 2, 3, 4, 9}}
    [] gameType = "connect4"     -> {[column |-> c] : c \in {0, 1, 7}}
    [] gameType = "gomoku"       -> {[index |-> i] : i \in {0, 1, 15, 225, -1}}
    [] gameType = "dotsandboxes" ->
         { Line("horizontal", 0, 0), Line("horizontal", 1, 0), Line("vertical", 0, 0),
           Line("vertical", 0, 1), Line("horizontal", 4, 0), Line("diagonal", 0, 0) }
    [] gameType = "ludo"         ->
         {[action |-> "rollDice", pieceIndex |-> 0, rand |-> r] : r \in {2, 6}}
         \cup {[action |-> "movePiece", pieceIndex |-> i, rand |-> 0] : i \in {0, 2}}
    [] gameType = "minichess"    ->
         { Step(4, 1, 2, 2), Step(0, 1, 2, 0), Step(3, 0, 2, 0), Step(5, 0, 4, 0) }
    [] gameType = "memorymatch"  -> {[cardIndex |-> i] : i \in {0, 1, 2, 16}}
    [] gameType = "minesweeper"  ->
         {[row |-> rc[1], col |-> rc[2]] :
            rc \in {<<0, 0>>, <<6, 1>>, <<6, 2>>, <<8, 0>>, <<0, 8>>}}
    [] gameType = "checkers"     ->
         { Step(5, 0, 4, 1), Step(2, 1, 3, 0), Step(5, 0, 3, 2), Step(8, 0, 7, 1),
           Step(5, 2, 4, -1) }
    [] gameType = "battleship"   ->
         { Fleet(GoodFleet), Fleet(BadFleet), Shot(0, 0), Shot(9, 9), Shot(0, 10) }
    [] OTHER                     -> {[index |-> 0]}

\* a game type processMove has no case for
NoHandler == "chess"

\* The game type a client names in makeMove is the one selected for the room,
\* or one without a handler.
SentType(roomCode, gameType) ==
  roomCode \in DOMAIN gameStates =>
    gameType \in {gameStates[roomCode].gameType, NoHandler}

\* no countdown of room c is under way: none has ticked yet, or all have run out
Idle(c) ==
  \A i \in DOMAIN timers :
     (timers[i].code = c /\ timers[i].ivl /\ c \in DOMAIN gameStates) =>
        gameStates[c].timeLeft = timers[i].dur

\* the expiry of the i-th pair is due: its countdown has at most one tick to go
Due(i) ==
  timers[i].code \in DOMAIN gameStates => gameStates[timers[i].code].timeLeft <= 1

\* Every game type against one room: s1 creates it once (no code collision),
\* s2 joins, s1 selects one game, s3 is a connection outside the room.  A
\* message arrives in the first second of a timer or after its countdown has
\* run out, and a timer expires once its countdown has at most one tick to go;
\* SpecTimers has the moves and expiries in the middle of a countdown.
Next ==
  \/ \E s \in Sockets : Connect(s)
  \/ "A" \notin DOMAIN rooms /\ CreateRoom("s1", "A")
  \/ JoinRoom("s2", "A")
  \/ \E g \in GameTypes : \E seed \in Seeds(g) :
        "A" \notin DOMAIN gameStates /\ SelectGame("s1", "A", g, seed)
  \/ \E s \in Sockets, g \in GameTypes \cup {NoHandler} : \E m \in Moves(g) :
        /\ SentType("A", g) /\ Idle("A") /\ MakeMove(s, "A", m, g)
        /\ moves' <= MaxMoves /\ Len(timers') <= MaxTimers
  \/ \E i \in 1..MaxTimers : Tick(i)
  \/ \E i \in 1..MaxTimers : i \in DOMAIN timers /\ Due(i) /\ Expire(i)

Spec == Init /\ [][Next]_vars

\* the lobby alone: three connections and one room code
NextLobby ==
  \/ \E s \in Sockets : Connect(s)
  \/ \E s \in Sockets : CreateRoom(s, "A")
  \/ \E s \in Sockets, c \in Codes : JoinRoom(s, c)
  \/ \E s \in Sockets, c \in Codes, g \in {"tictactoe", "battleship", NoHandler} :
        \E seed \in Seeds(g) : SelectGame(s, c, g, seed)
  \/ \E s \in Sockets, c \in Codes : RequestGameState(s, c)
  \/ \E s \in Sockets : Disconnect(s)

SpecLobby == Init /\ [][NextLobby]_vars

\* the lobby alone: two connections and two room codes
NextRooms ==
  \/ \E s \in {"s1", "s2"} : Connect(s)
  \/ \E s \in {"s1", "s2"}, c \in Codes : CreateRoom(s, c)
  \/ \E s \in {"s1", "s2"}, c \in Codes : JoinRoom(s, c)
  \/ \E s \in {"s1", "s2"}, c \in Codes : SelectGame(s, c, "tictactoe", {})
  \/ \E s \in {"s1", "s2"}, c \in Codes : RequestGameState(s, c)
  \/ \E s \in {"s1", "s2"} : Disconnect(s)

SpecRooms == Init /\ [][NextRooms]_vars

\* connect4 alone, played to the end in two columns (and a column outside
\* the board); connect4 starts no timer, so no callback ever runs
NextConnect4 ==
  \/ \E s \in {"s1", "s2"} : Connect(s)
  \/ "A" \notin DOMAIN rooms /\ CreateRoom("s1", "A")
  \/ JoinRoom("s2", "A")
  \/ "A" \notin DOMAIN gameStates /\ SelectGame("s1", "A", "connect4", {})
  \/ \E s \in {"s1", "s2"}, col \in {0, 1, 7} :
        "A" \in DOMAIN gameStates /\ MakeMove(s, "A", [column |-> col], "connect4")

SpecConnect4 == Init /\ [][NextConnect4]_vars

\* tictactoe in one room with every callback of its timers: the host may select
\* the game again at any time, both players may leave; the player on turn
\* plays one of two cells
NextTimers ==
  \/ \E s \in {"s1", "s2"} : Connect(s)
  \/ "A" \notin DOMAIN rooms /\ CreateRoom("s1", "A")
  \/ "A" \in DOMAIN rooms /\ ~RoomIsFull(rooms["A"]) /\ JoinRoom("s2", "A")
  \/ SelectGame("s1", "A", "tictactoe", {})
  \/ \E s \in {"s1", "s2"}, i \in {0, 1} :
        /\ "A" \in DOMAIN gameStates /\ gameStates["A"].currentPlayer = s
        /\ MakeMove(s, "A", [index |-> i], "tictactoe")
        /\ moves' <= MaxTimedMoves /\ Len(timers') <= MaxPairs
  \/ \E i \in 1..MaxPairs : Tick(i)
  \/ \E i \in 1..MaxPairs : Expire(i)
  \/ \E s \in {"s1", "s2"} : Disconnect(s)

SpecTimers == Init /\ [][NextTimers]_vars

\* tictactoe between two players to the end of the game, every empty cell
\* offered to the player on turn, with turn skips; all of it happens within the first second of each timer,
\* so no countdown ticks
NextTicTacToe ==
  \/ \E s \in {"s1", "s2"} : Connect(s)
  \/ "A" \notin DOMAIN rooms /\ CreateRoom("s1", "A")
  \/ "A" \in DOMAIN rooms /\ ~RoomIsFull(rooms["A"]) /\ JoinRoom("s2", "A")
  \/ /\ "A" \in DOMAIN rooms /\ RoomIsFull(rooms["A"]) /\ "A" \notin DOMAIN gameStates
     /\ SelectGame("s1", "A", "tictactoe", {})
  \/ \E s \in {"s1", "s2"}, i \in 0..8 :
        /\ "A" \in DOMAIN gameStates /\ gameStates["A"].currentPlayer = s
        /\ gameStates["A"].board[i] = Null /\ ~gameStates["A"].gameOver
        /\ MakeMove(s, "A", [index |-> i], "tictactoe")
  \/ \E i \in DOMAIN timers : Expire(i)

SpecTicTacToe == Init /\ [][NextTicTacToe]_vars

\* connect4 between two players in four columns stacked up to MaxHeight discs,
\* the player on turn dropping until the game is won: wide enough for runs
\* along a row, a column and both diagonals
NextConnect4Wide ==
  \/ \E s \in {"s1", "s2"} : Connect(s)
  \/ "A" \notin DOMAIN rooms /\ CreateRoom("s1", "A")
  \/ "A" \in DOMAIN rooms /\ ~RoomIsFull(rooms["A"]) /\ JoinRoom("s2", "A")
  \/ /\ "A" \in DOMAIN rooms /\ RoomIsFull(rooms["A"]) /\ "A" \notin DOMAIN gameStates
     /\ SelectGame("s1", "A", "connect4", {})
  \/ \E s \in {"s1", "s2"}, col \in 0..3 :
        /\ "A" \in DOMAIN gameStates /\ gameStates["A"].currentPlayer = s
        /\ ~gameStates["A"].gameOver /\ moves < MaxDrops
        /\ LowestEmptyRow(gameStates["A"].board, col) >= 6 - MaxHeight
        /\ MakeMove(s, "A", [column |-> col], "connect4")

SpecConnect4Wide == Init /\ [][NextConnect4Wide]_vars

\* the 24 edges of the dots-and-boxes board: the 12 horizontal ones row by
\* row, then the vertical ones row by row, each row as columns 1, 0, 2, 3
EdgeOrder ==
  [k \in 1..24 |->
     IF k <= 12 THEN Line("horizontal", (k - 1) \div 3, (k - 1) % 3)
     ELSE Line("vertical", (k - 13) \div 4, <<1, 0, 2, 3>>[((k - 13) % 4) + 1])]

EdgeDrawn(b, e) ==
  IF e.type = "horizontal" THEN b.horizontalLines[e.row][e.col]
  ELSE b.verticalLines[e.row][e.col]

\* the edge is not drawn and is among the EdgeWindow edges that start at the
\* first edge not drawn
EdgeOffered(b, k) ==
  /\ ~EdgeDrawn(b, EdgeOrder[k])
  /\ \E f \in 1..k : /\ k < f + EdgeWindow
                      /\ ~EdgeDrawn(b, EdgeOrder[f])
                      /\ \A j \in 1..(f - 1) : EdgeDrawn(b, EdgeOrder[j])

\* dots and boxes between two players to the end of the game, the player on
\* turn drawing an edge on offer, with turn skips; all of it happens within
\* the first second of each timer, so no countdown ticks
NextDots ==
  \/ \E s \in {"s1", "s2"} : Connect(s)
  \/ "A" \notin DOMAIN rooms /\ CreateRoom("s1", "A")
  \/ "A" \in DOMAIN rooms /\ ~RoomIsFull(rooms["A"]) /\ JoinRoom("s2", "A")
  \/ /\ "A" \in DOMAIN rooms /\ RoomIsFull(rooms["A"]) /\ "A" \notin DOMAIN gameStates
     /\ SelectGame("s1", "A", "dotsandboxes", {})
  \/ \E s \in {"s1", "s2"}, k \in 1..24 :
        /\ "A" \in DOMAIN gameStates /\ gameStates["A"].currentPlayer = s
        /\ EdgeOffered(gameStates["A"].board, k)
        /\ MakeMove(s, "A", EdgeOrder[k], "dotsandboxes")
  \/ \E i \in DOMAIN timers : Expire(i)

SpecDots == Init /\ [][NextDots]_vars

\* ===================================================================
\* Properties
\* ===================================================================
\* the step is the makeMove handler, run against a stored game state
MoveStep == last'.op = "makeMove" /\ last'.code \in DOMAIN gameStates

Before == gameStates[last'.code]

Evs(o) == [i \in DOMAIN o |-> o[i].ev]

InSetup(gs) == gs.gameType = "battleship" /\ gs.phase = "setup"

\* C1 (as stated): for every game type, battleship's setup phase included, a
\* makeMove from a connection that is not the current player is rejected and
\* leaves the stored game state unchanged.
C1_WrongPlayerAlwaysRejected ==
  [][ (MoveStep /\ Before.currentPlayer # last'.sid)
      => (~last'.valid /\ gameStates' = gameStates /\ timers' = timers) ]_vars

\* C1 (amended): outside battleship's setup phase a makeMove from a connection
\* that is not the current player is rejected without error and changes neither
\* the game state nor its pending timer; in the setup phase a valid fleet sent
\* by a player of the game is accepted whoever the current player is.
C1_WrongPlayerRejected ==
  [][ /\ (MoveStep /\ Before.currentPlayer # last'.sid /\ ~InSetup(Before))
         => (~last'.valid /\ ~last'.error
             /\ gameStates' = gameStates /\ timers' = timers)
      /\ (MoveStep /\ InSetup(Before) /\ last'.gameType = "battleship"
            /\ last'.sid \in DOMAIN Before.board /\ last'.move = Fleet(GoodFleet))
         => (last'.valid
             /\ gameStates'[last'.code].board[last'.sid].ships = GoodFleet) ]_vars

\* a move of the player who is not on turn was rejected while a timer runs
C1_Witness ==
  /\ last.op = "makeMove" /\ last.found /\ ~last.valid
  /\ last.gameType # NoHandler
  /\ gameStates[last.code].currentPlayer # last.sid
  /\ last.sid \in {gameStates[last.code].players[i] :
                     i \in DOMAIN gameStates[last.code].players}
  /\ gameStates[last.code].firstMoveMade
  /\ \E i \in DOMAIN timers : timers[i].tmo

\* the target of the move is taken already
TargetTaken(gs, move) ==
  CASE gs.gameType = "gomoku" ->
         /\ move.index \in 0..224
         /\ gs.board[move.index \div 15][move.index % 15] # Null
    [] gs.gameType = "memorymatch" ->
         /\ move.cardIndex \in 0..15
         /\ gs.board.cards[move.cardIndex].flipped \/ gs.board.cards[move.cardIndex].matched
    [] gs.gameType = "minesweeper" ->
         /\ move.row \in 0..7 /\ move.col \in 0..7
         /\ gs.board.board[move.row][move.col].isRevealed
    [] OTHER -> FALSE

\* C2: a move of the current player onto a taken target is rejected and the
\* game state is unchanged, its pending turn timer included: the timer is
\* still armed afterwards.
C2_TakenTargetKeepsTimer ==
  [][ (MoveStep /\ last'.gameType = Before.gameType /\ ~Before.gameOver
         /\ Before.currentPlayer = last'.sid /\ TargetTaken(Before, last'.move))
      => (~last'.valid /\ gameStates' = gameStates /\ timers' = timers) ]_vars

\* C3: a finished game is absorbing: with gameOver set, no makeMove and no timer
\* expiry changes board, currentPlayer or winner, and every move is rejected.
C3_GameOverAbsorbing ==
  [][ (last'.op \in {"makeMove", "expiry"} /\ last'.code \in DOMAIN gameStates
         /\ Before.gameOver)
      => (/\ ~last'.valid
          /\ gameStates'[last'.code].board = Before.board
          /\ gameStates'[last'.code].currentPlayer = Before.currentPlayer
          /\ gameStates'[last'.code].winner = Before.winner) ]_vars

\* the coordinates of the move lie outside the board
OutsideBoard(gs, move) ==
  CASE gs.gameType = "gomoku" -> move.index \notin 0..224
    [] gs.gameType = "minesweeper" -> move.row \notin 0..7 \/ move.col \notin 0..7
    [] gs.gameType = "checkers" ->
         \E x \in {move.fromRow, move.fromCol, move.toRow, move.toCol} : x \notin 0..7
    [] OTHER -> FALSE

\* C4: a move of the current player outside the board is rejected, raises no
\* error and leaves the game state unchanged.
C4_OutsideBoardRejected ==
  [][ (MoveStep /\ last'.gameType = Before.gameType /\ ~Before.gameOver
         /\ Before.currentPlayer = last'.sid /\ OutsideBoard(Before, last'.move))
      => (~last'.valid /\ ~last'.error
          /\ gameStates' = gameStates /\ timers' = timers) ]_vars

\* C5: joinRoom with an unknown code answers "Room not found", on a room of two
\* players "Room is full", in both cases changing no room and sending neither
\* roomJoined nor playerJoined; otherwise the joiner becomes the room's last
\* player.
C5_JoinRoom ==
  [][ last'.op = "joinRoom" =>
        LET c == last'.code
            s == last'.sid
        IN IF c \notin DOMAIN rooms
             THEN /\ rooms' = rooms
                  /\ out' = << [ev |-> "error", to |-> ToSocket(s),
                                message |-> "Room not found"] >>
           ELSE IF Len(rooms[c].players) = 2
             THEN /\ rooms' = rooms
                  /\ out' = << [ev |-> "error", to |-> ToSocket(s),
                                message |-> "Room is full"] >>
           ELSE /\ DOMAIN rooms' = DOMAIN rooms
                /\ \A d \in DOMAIN rooms \ {c} : rooms'[d] = rooms[d]
                /\ Len(rooms'[c].players) = Len(rooms[c].players) + 1
                /\ SubSeq(rooms'[c].players, 1, Len(rooms[c].players)) = rooms[c].players
                /\ rooms'[c].players[Len(rooms'[c].players)] = s
                /\ Evs(out') = <<"roomJoined", "playerJoined">> ]_vars

\* a third connection was told that the room is full
C5_Witness ==
  /\ last.op = "joinRoom"
  /\ out = << [ev |-> "error", to |-> ToSocket(last.sid), message |-> "Room is full"] >>
  /\ \A i \in DOMAIN rooms[last.code].players : rooms[last.code].players[i] # last.sid

\* C6: every room in the registry has one or two players.
C6_RoomSize ==
  \A c \in DOMAIN rooms : Len(rooms[c].players) \in {1, 2}

\* a disconnect emptied one room, which is gone, and left one player in another
C6_Witness ==
  /\ last.op = "disconnect"
  /\ \E c \in DOMAIN rooms : Len(rooms[c].players) = 1 /\ rooms[c].host = last.sid
  /\ DOMAIN rooms # Codes

\* C7 (as stated): when the host of a room disconnects the room is destroyed,
\* even if the second player is still connected.
C7_HostLeavesRoomDestroyed ==
  [][ last'.op = "disconnect" =>
        \A c \in DOMAIN rooms : rooms[c].host = last'.sid => c \notin DOMAIN rooms' ]_vars

\* C7 (amended): when the host of a room disconnects, the room is destroyed only
\* if no other player remains; otherwise it stays in the registry with the
\* remaining player, its host still names the departed connection (the role is
\* not reassigned) and playerLeft is broadcast to the room.
C7_HostLeavesRoomKept ==
  [][ last'.op = "disconnect" =>
        \A c \in DOMAIN rooms :
          rooms[c].host = last'.sid =>
            IF \A i \in DOMAIN rooms[c].players : rooms[c].players[i] = last'.sid
            THEN c \notin DOMAIN rooms'
            ELSE /\ c \in DOMAIN rooms'
                 /\ rooms'[c].host = last'.sid
                 /\ Len(rooms'[c].players) >= 1
                 /\ \A i \in DOMAIN rooms'[c].players : rooms'[c].players[i] # last'.sid
                 /\ \E k \in DOMAIN out' :
                       out'[k] = [ev |-> "playerLeft", to |-> ToRoom(c),
                                  players |-> rooms'[c].players] ]_vars

\* a room outlives its host
C7_Witness ==
  /\ last.op = "disconnect"
  /\ \E c \in DOMAIN rooms : rooms[c].host = last.sid /\ Len(rooms[c].players) = 1

\* C8: createRoom never replaces the record of an existing room.
C8_CreateRoomFreshCode ==
  [][ last'.op = "createRoom" =>
        \A c \in DOMAIN rooms : c \in DOMAIN rooms' /\ rooms'[c] = rooms[c] ]_vars

\* C9: a selectGame from a connection that is not the host, or for an unknown
\* room, changes neither the room's selected game nor the game state and
\* broadcasts nothing; a selectGame from the host creates a fresh game state
\* whose currentPlayer is the first player.
C9_SelectGame ==
  [][ last'.op = "selectGame" =>
        LET c == last'.code
        IN IF c \in DOMAIN rooms /\ rooms[c].host = last'.sid
           THEN /\ c \in DOMAIN gameStates'
                /\ gameStates'[c].gameType = rooms'[c].gameSelected
                /\ gameStates'[c].currentPlayer = rooms[c].players[1]
                /\ ~gameStates'[c].firstMoveMade /\ ~gameStates'[c].gameOver
                /\ Evs(out') = <<"gameSelected">>
           ELSE rooms' = rooms /\ gameStates' = gameStates /\ out' = <<>> ]_vars

\* the game type named in the message has a case in processMove
HasHandler(gameType) == gameType \in GameTypes

\* C10 (as stated): every makeMove for a room with a game state and a game type
\* that has a handler is broadcast to the room as a gameUpdate, accepted or
\* rejected; a rejected one carries valid: false.
C10_EveryMoveBroadcast ==
  [][ (MoveStep /\ HasHandler(last'.gameType))
      => (/\ Evs(out') = <<"gameUpdate">>
          /\ out'[1].to = ToRoom(last'.code)
          /\ out'[1].valid = last'.valid) ]_vars

\* C10 (amended): a makeMove whose handler returns valid: true is broadcast to
\* the room as one gameUpdate carrying valid: true and the new game state; a
\* makeMove that is rejected sends no notification at all.
C10_OnlyAcceptedBroadcast ==
  [][ MoveStep =>
        IF last'.valid
        THEN out' = << GameUpdate(last'.code, out'[1].gameState, TRUE, out'[1].extra) >>
             /\ out'[1].gameState.board = gameStates'[last'.code].board
             /\ out'[1].gameState.currentPlayer = gameStates'[last'.code].currentPlayer
        ELSE out' = <<>> ]_vars

\* a move the handler of its game type rejected, and nothing was sent
C10_Witness ==
  /\ last.op = "makeMove" /\ last.found /\ HasHandler(last.gameType)
  /\ ~last.valid /\ ~last.error
  /\ out = <<>>

\* the pairs of a room code whose expiry is pending / whose countdown repeats
PendingExpiries(c) == {i \in DOMAIN timers : timers[i].code = c /\ timers[i].tmo}

RepeatingTicks(c) == {i \in DOMAIN timers : timers[i].code = c /\ timers[i].ivl}

\* C11: at every instant each room code has at most one pending expiry callback
\* and at most one repeating tick.
C11_OneLiveTimer ==
  \A c \in Codes : Cardinality(PendingExpiries(c)) <= 1
                   /\ Cardinality(RepeatingTicks(c)) <= 1

\* the timeout of the pair was cleared by clearTimeout, or its room is gone
Cancelled(t) == ~t.tmo \/ t.code \notin DOMAIN rooms

\* C13: once a room's timer has been cancelled by an accepted move, or released
\* with its deleted room, it broadcasts no timerUpdate and skips no turn: every
\* tick and every turn skip is the callback of a timer that is neither
\* cancelled nor released.
C13_CancelledTimerSilent ==
  [][ /\ last'.op = "tick" =>
           \E i \in DOMAIN timers : ~Cancelled(timers[i]) /\ Tick(i)
      /\ (last'.op = "expiry" /\ last'.found) =>
           \E i \in DOMAIN timers : ~Cancelled(timers[i]) /\ Expire(i) ]_vars

\* C12: when a timer runs to expiry and the game is not over, currentPlayer is
\* switched to the other player, a gameUpdate carrying turnSkipped is broadcast
\* and a new timer of the game type's duration is started; if the game is over
\* at expiry, nothing changes and no timer is started.
C12_ExpirySkipsTurn ==
  [][ (last'.op = "expiry" /\ last'.code \in DOMAIN gameStates) =>
        LET c   == last'.code
            gs  == gameStates[c]
            gs1 == gameStates'[c]
        IN IF gs.gameOver
           THEN /\ gameStates' = gameStates
                /\ out' = <<>>
                /\ \A i \in DOMAIN timers' :
                      \E j \in DOMAIN timers : timers[j].tid = timers'[i].tid
           ELSE /\ ~last'.error
                /\ gs1.currentPlayer # gs.currentPlayer
                /\ \E k \in DOMAIN gs.players : gs.players[k] = gs1.currentPlayer
                /\ gs1.board = gs.board
                /\ Evs(out') = <<"gameUpdate">>
                /\ "turnSkipped" \in out'[1].extra
                /\ \E i \in DOMAIN timers' :
                      /\ timers'[i].tid = gs1.timer
                      /\ timers'[i].tmo /\ timers'[i].ivl
                      /\ timers'[i].dur = TimerDuration(gs.gameType)
                      /\ gs1.timeLeft = timers'[i].dur ]_vars

\* the turn durations in seconds
TurnSeconds ==
  [tictactoe |-> 4, dotsandboxes |-> 5, gomoku |-> 5, minichess |-> 10, ludo |-> 6,
   checkers |-> 5, minesweeper |-> 5, memorymatch |-> 5, battleship |-> 8]

\* the step armed no timer: every expiry pending after it was pending before
NoTimerStarted ==
  \A i \in DOMAIN timers' :
     timers'[i].tmo => \E j \in DOMAIN timers : timers[j] = timers'[i]

C15_RequestGameState ==
  [][ last'.op = "requestGameState" =>
        LET c == last'.code
        IN /\ rooms' = rooms /\ gameStates' = gameStates
           /\ timers' = timers /\ orphans' = orphans
           /\ IF c \in DOMAIN gameStates
              THEN /\ out' = << [ev |-> "gameUpdate",
                                 to |-> [kind |-> "socket", id |-> last'.sid],
                                 gameState |-> gameStates[c], valid |-> TRUE] >>
                   /\ (last.op = "requestGameState" /\ last.code = c) =>
                         /\ Len(out) = 1
                         /\ out[1].gameState = out'[1].gameState
                         /\ out[1].valid = out'[1].valid
              ELSE out' = <<>> ]_vars

\* a connection outside the room was sent the room's battleship state, alone
C15_Witness ==
  /\ last.op = "requestGameState" /\ last.found
  /\ Len(out) = 1 /\ out[1].to.id = last.sid
  /\ out[1].gameState.gameType = "battleship"
  /\ last.sid \notin {rooms[last.code].players[i] : i \in DOMAIN rooms[last.code].players}

Members(room) == {room.players[i] : i \in DOMAIN room.players}

\* C16: after a connection disconnects no room lists it as a player, every
\* room it left empty is removed together with its game state, and a game
\* state exists only for a room code that is in the registry.
C16_DisconnectCleansUp ==
  [][ /\ last'.op = "disconnect" =>
           /\ \A c \in DOMAIN rooms' : last'.sid \notin Members(rooms'[c])
           /\ \A c \in DOMAIN rooms :
                 IF Members(rooms[c]) \subseteq {last'.sid}
                 THEN c \notin DOMAIN rooms' /\ c \notin DOMAIN gameStates'
                 ELSE c \in DOMAIN rooms'
      /\ DOMAIN gameStates' \subseteq DOMAIN rooms' ]_vars

\* a disconnect emptied the registry of one room and left another, with its
\* game state, to the player who stayed
C16_Witness ==
  /\ last.op = "disconnect"
  /\ sockets[last.sid] = "gone"
  /\ DOMAIN rooms # Codes
  /\ \E c \in DOMAIN gameStates :
        /\ last.sid \notin Members(rooms[c])
        /\ \E i \in DOMAIN gameStates[c].players : gameStates[c].players[i] = last.sid

\* the three rows, the three columns and the two diagonals of the 3 x 3 board
Lines3 ==
  {{3 * r, 3 * r + 1, 3 * r + 2} : r \in 0..2}
    \cup {{k, k + 3, k + 6} : k \in 0..2}
    \cup {{0, 4, 8}, {2, 4, 6}}

\* C17: in tictactoe an accepted move puts the mover's symbol (X for the first
\* player, O for the second) on the empty cell named; the game is then over
\* with the mover as winner exactly when one of the 8 lines holds that symbol,
\* over as a draw exactly when all 9 cells are filled with no such line, and
\* goes on otherwise; a turn skip changes neither board nor outcome.
C17_TicTacToeOutcome ==
  [][ /\ (MoveStep /\ Before.gameType = "tictactoe" /\ last'.valid) =>
           LET gs1  == gameStates'[last'.code]
               idx  == last'.move.index
               sym  == IF Before.players[1] = last'.sid THEN "X" ELSE "O"
               line == \E L \in Lines3 : \A k \in L : gs1.board[k] = sym
               full == \A k \in 0..8 : gs1.board[k] # Null
           IN /\ ~Before.gameOver /\ Before.board[idx] = Null
              /\ gs1.board = [Before.board EXCEPT ![idx] = sym]
              /\ (gs1.gameOver /\ gs1.winner = last'.sid) <=> line
              /\ (gs1.gameOver /\ gs1.winner = Null) <=> (~line /\ full)
              /\ gs1.gameOver <=> (line \/ full)
              /\ ("winner" \in out'[1].extra) <=> line
              /\ ("draw" \in out'[1].extra) <=> (~line /\ full)
      /\ (last'.op = "expiry" /\ last'.code \in DOMAIN gameStates
            /\ Before.gameType = "tictactoe") =>
           /\ gameStates'[last'.code].board = Before.board
           /\ gameStates'[last'.code].gameOver = Before.gameOver
           /\ gameStates'[last'.code].winner = Before.winner ]_vars

\* X on 0, 1 and 2 and nothing else on the board: the first player has won
C17_Witness ==
  /\ "A" \in DOMAIN gameStates
  /\ gameStates["A"].gameType = "tictactoe"
  /\ gameStates["A"].board = [k \in 0..8 |-> IF k \in {0, 1, 2} THEN "X" ELSE Null]
  /\ gameStates["A"].gameOver
  /\ gameStates["A"].winner = gameStates["A"].players[1]
  /\ last.op = "makeMove" /\ last.valid

\* no disc above an empty cell of its column (row 5 is the bottom row)
Stacked(board) ==
  \A col \in 0..6 : \A r \in 0..4 :
     board[r][col] # Null => board[r + 1][col] # Null

ColumnFull(board, col) == col \in 0..6 /\ \A r \in 0..5 : board[r][col] # Null

\* the disc of the player: R for the first player, Y for the second
Disc(gs, playerId) == IF gs.players[1] = playerId THEN "R" ELSE "Y"

\* C18: in connect4 an accepted drop fills the lowest empty row of its column
\* and nothing else, so no disc ever sits above an empty cell of its column;
\* a drop into a full column is rejected with the board unchanged.
C18_Connect4Gravity ==
  [][ /\ \A c \in DOMAIN gameStates' :
           gameStates'[c].gameType = "connect4" => Stacked(gameStates'[c].board)
      /\ (MoveStep /\ Before.gameType = "connect4") =>
           LET col == last'.move.column
               b1  == gameStates'[last'.code].board
           IN /\ last'.valid =>
                   /\ col \in 0..6
                   /\ \E r \in 0..5 :
                         /\ Before.board[r][col] = Null
                         /\ \A q \in (r + 1)..5 : Before.board[q][col] # Null
                         /\ b1 = [Before.board EXCEPT ![r][col] = Disc(Before, last'.sid)]
              /\ ColumnFull(Before.board, col) => ~last'.valid /\ b1 = Before.board ]_vars

\* the player on turn dropped into column 0, which holds six discs: rejected
C18_Witness ==
  /\ last.op = "makeMove" /\ last.found /\ ~last.valid /\ last.gameType = "connect4"
  /\ last.move.column = 0
  /\ gameStates[last.code].currentPlayer = last.sid
  /\ ColumnFull(gameStates[last.code].board, 0)

\* the cell (r, c) lies in four contiguous cells of a row, a column or a
\* diagonal of the 6 x 7 board that all hold sym
InRunOf4(board, r, c, sym) ==
  \E d \in {<<0, 1>>, <<1, 0>>, <<1, 1>>, <<1, -1>>} : \E k \in 0..3 :
     \A j \in 0..3 :
        LET rr == r + (j - k) * d[1]
            cc == c + (j - k) * d[2]
        IN rr \in 0..5 /\ cc \in 0..6 /\ board[rr][cc] = sym

\* C19: in connect4 an accepted drop is reported as a win, and ends the game
\* with the mover as winner, exactly when the placed disc belongs to a run of
\* at least 4 contiguous discs of the mover along a row, a column or a
\* diagonal; otherwise the game goes on with the other player on turn.
C19_Connect4Winner ==
  [][ (MoveStep /\ Before.gameType = "connect4" /\ last'.valid) =>
        LET gs1 == gameStates'[last'.code]
            col == last'.move.column
            r   == CHOOSE q \in 0..5 : gs1.board[q][col] # Before.board[q][col]
            run == InRunOf4(gs1.board, r, col, Disc(Before, last'.sid))
        IN /\ ("winner" \in out'[1].extra) <=> run
           /\ run => /\ gs1.gameOver /\ gs1.winner = last'.sid
                     /\ gs1.currentPlayer = last'.sid
           /\ (~run /\ ~Before.gameOver) =>
                 /\ ~gs1.gameOver /\ gs1.winner = Null
                 /\ gs1.currentPlayer # last'.sid ]_vars

\* a drop completed a rising diagonal from column 0 to column 3 and won
C19_Witness ==
  /\ last.op = "makeMove" /\ last.valid /\ last.gameType = "connect4"
  /\ gameStates[last.code].gameOver
  /\ gameStates[last.code].winner = last.sid
  /\ \E r \in 3..5 : \A j \in 0..3 :
        gameStates[last.code].board[r - j][j] = Disc(gameStates[last.code], last.sid)

Boxes == (0..2) \X (0..2)

\* top, bottom, left and right edge of the box are drawn
FourSides(b, rc) ==
  /\ EdgeDrawn(b, Line("horizontal", rc[1], rc[2]))
  /\ EdgeDrawn(b, Line("horizontal", rc[1] + 1, rc[2]))
  /\ EdgeDrawn(b, Line("vertical", rc[1], rc[2]))
  /\ EdgeDrawn(b, Line("vertical", rc[1], rc[2] + 1))

Owned(b, sym) == {rc \in Boxes : b.boxes[rc[1]][rc[2]] = sym}

\* C20: in dotsandboxes an accepted edge that completes k >= 1 unowned boxes
\* gives them to the mover, raises the mover's score by k and keeps the turn;
\* one that completes none changes no score and passes the turn; the game is
\* over exactly when all 9 boxes are owned, won by the higher score, a draw on
\* equal scores.
C20_DotsAndBoxes ==
  [][ (MoveStep /\ Before.gameType = "dotsandboxes" /\ last'.valid) =>
        LET gs1   == gameStates'[last'.code]
            b0    == Before.board
            b1    == gs1.board
            first == Before.players[1] = last'.sid
            sym   == IF first THEN "P1" ELSE "P2"
            mine  == IF first THEN "player1" ELSE "player2"
            other == IF first THEN "player2" ELSE "player1"
            new   == {rc \in Boxes : b0.boxes[rc[1]][rc[2]] = Null /\ FourSides(b1, rc)}
            k     == Cardinality(new)
        IN /\ EdgeDrawn(b1, last'.move) /\ ~EdgeDrawn(b0, last'.move)
           /\ \A rc \in Boxes :
                 b1.boxes[rc[1]][rc[2]] = IF rc \in new THEN sym ELSE b0.boxes[rc[1]][rc[2]]
           /\ b1.scores[mine] = b0.scores[mine] + k
           /\ b1.scores[other] = b0.scores[other]
           /\ b1.scores.player1 = Cardinality(Owned(b1, "P1"))
           /\ b1.scores.player2 = Cardinality(Owned(b1, "P2"))
           /\ IF k >= 1 THEN gs1.currentPlayer = last'.sid
              ELSE /\ gs1.currentPlayer # last'.sid
                   /\ \E i \in DOMAIN Before.players : Before.players[i] = gs1.currentPlayer
           /\ gs1.gameOver <=> (Owned(b1, Null) = {})
           /\ gs1.gameOver =>
                 /\ b1.scores.player1 > b1.scores.player2 => gs1.winner = Before.players[1]
                 /\ b1.scores.player2 > b1.scores.player1 => gs1.winner = Before.players[2]
                 /\ gs1.draw <=> b1.scores.player1 = b1.scores.player2
           /\ ~gs1.gameOver => gs1.winner = Null /\ ~gs1.draw ]_vars

\* the second player drew the last edge, closed the ninth box and won the game
C20_Witness ==
  /\ last.op = "makeMove" /\ last.valid /\ last.gameType = "dotsandboxes"
  /\ "boxesCompleted" \in out[1].extra
  /\ gameStates[last.code].gameOver
  /\ gameStates[last.code].winner = "s2" /\ last.sid = "s2"
  /\ gameStates[last.code].board.scores.player2 > gameStates[last.code].board.scores.player1
  /\ Owned(gameStates[last.code].board, Null) = {}

\* the key of a player's pieces on the ludo board
LudoKey(gs, playerId) == IF gs.players[1] = playerId THEN "player1" ELSE "player2"

\* no home piece with a 6, no piece on the board that can advance without
\* passing 57
NoPieceCanMove(board, key, dice) ==
  \A i \in DOMAIN board.players[key].pieces :
     LET pos == board.players[key].pieces[i]
     IN /\ ~(pos = 0 /\ dice = 6)
        /\ ~(pos > 0 /\ pos + dice <= 57)

\* C21: in ludo a piece at home position 0 is moved by a movePiece only when
\* the dice shows 6, and it then enters position 1; a rollDice by the current
\* player after which none of the roller's pieces can move completes, switches
\* currentPlayer to the other player and clears the rolled flag.
C21_LudoHomeAndForcedSkip ==
  [][ (MoveStep /\ Before.gameType = "ludo" /\ last'.gameType = "ludo") =>
        LET gs1 == gameStates'[last'.code]
            key == LudoKey(Before, last'.sid)
        IN /\ \A k \in {"player1", "player2"} :
                 \A i \in DOMAIN Before.board.players[k].pieces :
                    (Before.board.players[k].pieces[i] = 0
                       /\ gs1.board.players[k].pieces[i] # 0) =>
                      /\ last'.move.action = "movePiece"
                      /\ Before.board.diceValue = 6
                      /\ gs1.board.players[k].pieces[i] = 1
           /\ (last'.move.action = "rollDice"
                 /\ Before.currentPlayer = last'.sid /\ ~Before.gameOver
                 /\ NoPieceCanMove(gs1.board, key, gs1.board.diceValue)) =>
                /\ ~last'.error
                /\ gs1.currentPlayer # last'.sid
                /\ \E j \in DOMAIN Before.players : Before.players[j] = gs1.currentPlayer
                /\ ~gs1.board.diceRolled ]_vars

\* the cell a minesweeper move names is on the 8x8 board, hidden and mined
HiddenMine(gs, move) ==
  /\ move.row \in 0..7 /\ move.col \in 0..7
  /\ ~gs.board.board[move.row][move.col].isRevealed
  /\ gs.board.board[move.row][move.col].isMine

\* C22: in minesweeper, when the current player reveals a hidden cell that
\* holds a mine, the reveal completes, the game is over, the winner is the
\* other player of the game and never the revealer, and no score changes.
C22_MineLosesForRevealer ==
  [][ (MoveStep /\ Before.gameType = "minesweeper" /\ last'.gameType = "minesweeper"
         /\ Before.currentPlayer = last'.sid /\ ~Before.gameOver
         /\ HiddenMine(Before, last'.move)) =>
        LET gs1 == gameStates'[last'.code]
        IN /\ ~last'.error
           /\ gs1.gameOver
           /\ gs1.winner # last'.sid
           /\ \E j \in DOMAIN Before.players : Before.players[j] = gs1.winner
           /\ gs1.board.scores = Before.board.scores ]_vars

\* C23: no inbound action raises an unhandled error, a selectGame or a
\* makeMove in a room of one player included, and currentPlayer of every game
\* state is the id of one of the game's players.
C23_NoUnhandledError ==
  /\ ~last.error
  /\ \A c \in DOMAIN gameStates :
        \E j \in DOMAIN gameStates[c].players :
           gameStates[c].players[j] = gameStates[c].currentPlayer

\* a game played through a change of the room's members: s1 hosts, s2 and s3
\* join while there is room, any of them may leave, tictactoe is selected once
\* the room is full and played on three cells within the first second of
\* each turn (no timer callback runs)
NextTurns ==
  \/ \E s \in Sockets : Connect(s)
  \/ "A" \notin DOMAIN rooms /\ CreateRoom("s1", "A")
  \/ \E s \in {"s2", "s3"} :
        "A" \in DOMAIN rooms /\ ~RoomIsFull(rooms["A"]) /\ JoinRoom(s, "A")
  \/ /\ "A" \in DOMAIN rooms /\ RoomIsFull(rooms["A"]) /\ "A" \notin DOMAIN gameStates
     /\ SelectGame("s1", "A", "tictactoe", {})
  \/ \E s \in Sockets, i \in {0, 1, 2} :
        /\ "A" \in DOMAIN gameStates /\ moves < MaxMoves
        /\ MakeMove(s, "A", [index |-> i], "tictactoe")
  \/ \E s \in Sockets : Disconnect(s)

SpecTurns == Init /\ [][NextTurns]_vars

\* the games whose accepted move always passes the turn or ends the game
TurnGames == {"tictactoe", "connect4", "gomoku", "minichess", "checkers", "battleship"}

\* C24: in tictactoe, connect4, gomoku, minichess, checkers and battleship's
\* playing phase an accepted move that does not end the game sets
\* currentPlayer to the other player of the room, never to an id that is not
\* one of the room's players, and an accepted move that ends the game leaves
\* currentPlayer unchanged.
C24_TurnPassesToOtherPlayer ==
  [][ (MoveStep /\ last'.valid /\ Before.gameType \in TurnGames
         /\ last'.gameType = Before.gameType /\ ~InSetup(Before)) =>
        LET gs1 == gameStates'[last'.code]
        IN IF gs1.gameOver
           THEN gs1.currentPlayer = Before.currentPlayer
           ELSE /\ gs1.currentPlayer # last'.sid
                /\ gs1.currentPlayer \in Members(rooms[last'.code]) ]_vars

\* the number of cells a player may choose the next shot from
ShotWindow == 2

\* the number of accepted fleet submissions, resubmissions included
MaxSubmits == 3

\* the ships of GoodFleet, each moved one column to the right
ShiftedFleet ==
  [i \in 1..5 |-> [positions |-> [j \in DOMAIN GoodFleet[i].positions |->
                     [row |-> GoodFleet[i].positions[j].row,
                      col |-> GoodFleet[i].positions[j].col + 1]]]]

\* the cells of rows 0..4 either fleet covers, row by row: 6, 5, 4, 4, 3 cells
ShotOrder ==
  << Shot(0, 0), Shot(0, 1), Shot(0, 2), Shot(0, 3), Shot(0, 4), Shot(0, 5),
     Shot(1, 0), Shot(1, 1), Shot(1, 2), Shot(1, 3), Shot(1, 4),
     Shot(2, 0), Shot(2, 1), Shot(2, 2), Shot(2, 3),
     Shot(3, 0), Shot(3, 1), Shot(3, 2), Shot(3, 3),
     Shot(4, 0), Shot(4, 1), Shot(4, 2) >>

ShotAt(shots, m) == shots[m.row * 10 + m.col] # Null

\* the cell is among the ShotWindow cells that start at the player's first
\* cell not shot at, or it is the first cell of all (a repeated shot, later)
ShotOffered(shots, k) ==
  \/ k = 1
  \/ /\ ~ShotAt(shots, ShotOrder[k])
     /\ \E f \in 1..k : /\ k < f + ShotWindow
                         /\ ~ShotAt(shots, ShotOrder[f])
                         /\ \A j \in 1..(f - 1) : ShotAt(shots, ShotOrder[j])

\* what a player sends: in the setup phase one of three fleets, while fewer
\* than MaxSubmits submissions were accepted; in the playing phase a fleet
\* again, or, until the game is over, a shot at a cell on offer
BattleshipOffers(gs, s, submitted) ==
  IF gs.phase = "setup"
  THEN IF submitted < MaxSubmits
       THEN {Fleet(ships) : ships \in {GoodFleet, ShiftedFleet, BadFleet}}
       ELSE {}
  ELSE {Fleet(ShiftedFleet)}
       \cup (IF gs.gameOver THEN {}
             ELSE {ShotOrder[k] : k \in {j \in DOMAIN ShotOrder :
                                            ShotOffered(gs.board[s].shots, j)}})

\* battleship between two players to the end of the game: fleets of the
\* right and of wrong sizes are submitted and resubmitted by either player,
\* then either player shoots at a cell on offer or submits a fleet again; every
\* move is made within the first second of the turn, so no timer callback runs
NextBattleship ==
  \/ \E s \in {"s1", "s2"} : Connect(s)
  \/ "A" \notin DOMAIN rooms /\ CreateRoom("s1", "A")
  \/ "A" \in DOMAIN rooms /\ ~RoomIsFull(rooms["A"]) /\ JoinRoom("s2", "A")
  \/ /\ "A" \in DOMAIN rooms /\ RoomIsFull(rooms["A"]) /\ "A" \notin DOMAIN gameStates
     /\ SelectGame("s1", "A", "battleship", {})
  \/ \E s \in {"s1", "s2"} :
        /\ "A" \in DOMAIN gameStates
        /\ \E m \in BattleshipOffers(gameStates["A"], s, moves) :
              MakeMove(s, "A", m, "battleship")

SpecBattleship == Init /\ [][NextBattleship]_vars

ShipSizes == <<5, 4, 3, 3, 2>>

\* five ships whose sizes are 5, 4, 3, 3 and 2 in some order
StandardFleet(ships) ==
  /\ DOMAIN ships = 1..5
  /\ \E p \in [1..5 -> 1..5] :
        /\ \A i, j \in 1..5 : i # j => p[i] # p[j]
        /\ \A i \in 1..5 : Len(ships[p[i]].positions) = ShipSizes[i]

\* C25: a battleship game leaves "setup" for "playing" exactly at the accepted
\* submission after which both players have a stored fleet of sizes 5, 4, 3, 3,
\* 2; a submission of any other sizes is rejected and changes nothing;
\* firstMoveMade is set at that step; the phase never returns to "setup" and
\* no ships change once the phase is "playing".
C25_BattleshipPhase ==
  [][ \A c \in DOMAIN gameStates \cap DOMAIN gameStates' :
        (gameStates[c].gameType = "battleship" /\ gameStates'[c].oid = gameStates[c].oid) =>
          LET g    == gameStates[c]
              g1   == gameStates'[c]
              both == \A i \in DOMAIN g1.players : StandardFleet(g1.board[g1.players[i]].ships)
          IN /\ g.phase = "playing" =>
                  /\ g1.phase = "playing"
                  /\ \A p \in DOMAIN g.board : g1.board[p].ships = g.board[p].ships
             /\ g1.firstMoveMade <=> g1.phase = "playing"
             /\ (g.phase = "setup" /\ g1.phase = "playing") =>
                  /\ last'.op = "makeMove" /\ last'.valid /\ last'.code = c
                  /\ last'.move.kind = "fleet"
                  /\ both
             /\ (last'.op = "makeMove" /\ last'.code = c /\ last'.gameType = "battleship"
                   /\ g.phase = "setup" /\ last'.move.kind = "fleet"
                   /\ last'.sid \in DOMAIN g.board) =>
                  IF StandardFleet(last'.move.ships)
                  THEN /\ last'.valid
                       /\ g1.board[last'.sid].ships = last'.move.ships
                       /\ g1.phase = "playing" <=> both
                  ELSE /\ ~last'.valid
                       /\ gameStates' = gameStates /\ timers' = timers ]_vars

\* the host's fleet, submitted after the guest's, has just started the
\* playing phase
C25_Witness ==
  /\ last.op = "makeMove" /\ last.valid /\ last.gameType = "battleship"
  /\ last.move.kind = "fleet" /\ last.sid = "s1"
  /\ gameStates[last.code].phase = "playing" /\ gameStates[last.code].firstMoveMade
  /\ gameStates[last.code].board["s1"].ships = ShiftedFleet
  /\ gameStates[last.code].board["s2"].ships = GoodFleet
  /\ \A i \in 0..99 : gameStates[last.code].board["s2"].shots[i] = Null

\* the cell is a position of one of the ships
OnShip(ships, row, col) ==
  \E i \in DOMAIN ships : \E j \in DOMAIN ships[i].positions :
     ships[i].positions[j] = [row |-> row, col |-> col]

\* every position of every ship is recorded as hit in shots
FleetDestroyed(ships, shots) ==
  \A i \in DOMAIN ships : \A j \in DOMAIN ships[i].positions :
     shots[ships[i].positions[j].row * 10 + ships[i].positions[j].col] = "hit"

\* C26: in battleship's playing phase a shot by the player on turn at a cell
\* that player already shot at is rejected and changes nothing; an accepted
\* shot is recorded as a hit exactly when the cell belongs to a ship of the
\* opponent, and as a miss otherwise; the game is over, won by the shooter,
\* exactly when every position of every opposing ship is recorded as hit by
\* the shooter, and otherwise the turn passes to the opponent.
C26_BattleshipShot ==
  [][ (MoveStep /\ Before.gameType = "battleship" /\ last'.gameType = "battleship"
         /\ Before.phase = "playing" /\ last'.move.kind = "shot"
         /\ Before.currentPlayer = last'.sid /\ ~Before.gameOver) =>
        LET gs1   == gameStates'[last'.code]
            me    == last'.sid
            opp   == CHOOSE p \in DOMAIN Before.board : p # me
            idx   == last'.move.row * 10 + last'.move.col
            ships == Before.board[opp].ships
        IN IF Before.board[me].shots[idx] # Null
           THEN ~last'.valid /\ gs1.board = Before.board
                /\ gs1.currentPlayer = me /\ ~gs1.gameOver
           ELSE /\ last'.valid
                /\ gs1.board[me].shots[idx] =
                     IF OnShip(ships, last'.move.row, last'.move.col) THEN "hit" ELSE "miss"
                /\ \A i \in 0..99 : i # idx =>
                      gs1.board[me].shots[i] = Before.board[me].shots[i]
                /\ gs1.board[opp] = Before.board[opp]
                /\ gs1.gameOver <=> FleetDestroyed(ships, gs1.board[me].shots)
                /\ IF gs1.gameOver
                   THEN gs1.winner = me /\ gs1.currentPlayer = me
                   ELSE gs1.winner = Null /\ gs1.currentPlayer = opp ]_vars

\* the guest has hit the last of the 17 positions of the host's fleet, after
\* misses, and has won
C26_Witness ==
  /\ last.op = "makeMove" /\ last.valid /\ last.gameType = "battleship"
  /\ last.move.kind = "shot" /\ last.sid = "s2"
  /\ gameStates[last.code].gameOver /\ gameStates[last.code].winner = "s2"
  /\ FleetDestroyed(gameStates[last.code].board["s1"].ships,
                    gameStates[last.code].board["s2"].shots)
  /\ \E i \in 0..99 : gameStates[last.code].board["s2"].shots[i] = "miss"
  /\ \E i \in 0..99 : gameStates[last.code].board["s1"].shots[i] = "hit"

\* C27: in every memorymatch state the pending-pair list flippedCards holds at
\* most 2 card indices (so that the second flip of a later pair is still
\* compared), and the game is over exactly when all 16 cards are matched.
C27_PendingPairAtMostTwo ==
  \A c \in DOMAIN gameStates :
     gameStates[c].gameType = "memorymatch" =>
       /\ Len(gameStates[c].board.flippedCards) <= 2
       /\ gameStates[c].gameOver <=>
             \A i \in 0..15 : gameStates[c].board.cards[i].matched

\* the step names cells of the 5x5 board and moves a pawn of the mover
\* (uppercase pieces are the first player's)
OwnPawnStep(gs, m, playerId) ==
  /\ m.fromRow \in 0..4 /\ m.fromCol \in 0..4 /\ m.toRow \in 0..4 /\ m.toCol \in 0..4
  /\ gs.board[m.fromRow][m.fromCol] = (IF gs.players[1] = playerId THEN "P" ELSE "p")

\* one row toward the opposing side's starting rank (uppercase toward row 0,
\* lowercase toward row 4): straight onto an empty cell, or diagonally onto
\* a piece of the other side
PawnRule(board, m) ==
  LET upper  == board[m.fromRow][m.fromCol] = "P"
      target == board[m.toRow][m.toCol]
  IN /\ m.toRow - m.fromRow = (IF upper THEN -1 ELSE 1)
     /\ \/ m.toCol = m.fromCol /\ target = Null
        \/ /\ m.toCol - m.fromCol \in {-1, 1}
           /\ target # Null
           /\ (target \in {"P", "R", "N", "K"}) # upper

\* C28: in minichess a move of one of the mover's pawns is accepted exactly
\* when it is one step forward, toward the opposing side's starting rank,
\* straight onto an empty cell or diagonally onto an opposing piece; so from
\* the initial position each pawn can step onto the empty middle row.
C28_PawnMovesForward ==
  [][ (MoveStep /\ Before.gameType = "minichess" /\ last'.gameType = "minichess"
         /\ Before.currentPlayer = last'.sid /\ ~Before.gameOver
         /\ OwnPawnStep(Before, last'.move, last'.sid)) =>
        (last'.valid <=> PawnRule(Before.board, last'.move)) ]_vars

\* a game of checkers in which red takes all twelve black pieces: steps and
\* jumps of both colours, a black jump, red kings moving and jumping backward
CheckersScript ==
  << Step(5, 2, 4, 3), Step(2, 7, 3, 6), Step(5, 6, 4, 7), Step(6, 7, 5, 6),
     Step(2, 3, 3, 2), Step(5, 6, 4, 5), Step(4, 5, 2, 7), Step(1, 4, 2, 3),
     Step(3, 2, 4, 1), Step(5, 0, 3, 2), Step(3, 2, 1, 4), Step(2, 1, 3, 2),
     Step(4, 3, 2, 1), Step(0, 5, 2, 3), Step(2, 7, 0, 5), Step(7, 6, 6, 7),
     Step(0, 3, 1, 4), Step(2, 1, 0, 3), Step(1, 0, 2, 1), Step(0, 5, 1, 6),
     Step(1, 6, 3, 4), Step(3, 4, 1, 2), Step(0, 3, 2, 5), Step(1, 2, 3, 0),
     Step(3, 0, 2, 1), Step(0, 1, 1, 2), Step(2, 1, 0, 3), Step(5, 4, 4, 5),
     Step(0, 7, 1, 6), Step(2, 5, 0, 7) >>

\* steps sent at any time: a man backward, along a row, by three rows, a jump
\* over an empty cell or an own piece, a step onto a taken cell
CheckersProbes ==
  { Step(4, 3, 5, 2), Step(5, 4, 5, 5), Step(5, 0, 2, 3), Step(5, 0, 3, 2),
    Step(7, 2, 5, 4), Step(6, 1, 5, 2), Step(3, 6, 2, 7), Step(1, 2, 3, 4) }

\* checkers between two players to the end of the game: either player sends
\* the next step of the script or one of the probes, with turn skips; every
\* move is made within the first second of the turn, so no countdown ticks
NextCheckers ==
  \/ \E s \in {"s1", "s2"} : Connect(s)
  \/ "A" \notin DOMAIN rooms /\ CreateRoom("s1", "A")
  \/ "A" \in DOMAIN rooms /\ ~RoomIsFull(rooms["A"]) /\ JoinRoom("s2", "A")
  \/ /\ "A" \in DOMAIN rooms /\ RoomIsFull(rooms["A"]) /\ "A" \notin DOMAIN gameStates
     /\ SelectGame("s1", "A", "checkers", {})
  \/ \E s \in {"s1", "s2"} :
        /\ "A" \in DOMAIN gameStates /\ moves < Len(CheckersScript)
        /\ \E m \in CheckersProbes \cup {CheckersScript[moves + 1]} :
              MakeMove(s, "A", m, "checkers")
  \/ \E i \in DOMAIN timers : Expire(i)

SpecCheckers == Init /\ [][NextCheckers]_vars

\* the pieces of a colour: the man and the king
PiecesOf(color) == IF color = "red" THEN {"red", "red-king"} ELSE {"black", "black-king"}

CellsOf(board, color) ==
  {rc \in (0..7) \X (0..7) : board[rc[1]][rc[2]] \in PiecesOf(color)}

\* C29: an accepted checkers move takes a piece of the mover diagonally onto an
\* empty cell by exactly 1 or 2 rows, forward unless the piece is a king; a
\* move by 2 jumps an adjacent opposing piece and removes exactly that piece,
\* a move by 1 removes nothing, and the mover's piece count does not change;
\* the game is over, won by the mover, exactly when the opponent has no piece
\* left.
C29_CheckersMove ==
  [][ (MoveStep /\ Before.gameType = "checkers" /\ last'.gameType = "checkers"
         /\ last'.valid) =>
        LET gs1  == gameStates'[last'.code]
            m    == last'.move
            b0   == Before.board
            b1   == gs1.board
            me   == IF Before.players[1] = last'.sid THEN "red" ELSE "black"
            opp  == IF me = "red" THEN "black" ELSE "red"
            dr   == m.toRow - m.fromRow
            dc   == m.toCol - m.fromCol
            from == <<m.fromRow, m.fromCol>>
            to   == <<m.toRow, m.toCol>>
            mid  == <<m.fromRow + dr \div 2, m.fromCol + dc \div 2>>
            gone == IF dr \in {-2, 2} THEN {mid} ELSE {}
        IN /\ from \in (0..7) \X (0..7) /\ to \in (0..7) \X (0..7)
           /\ b0[from[1]][from[2]] \in PiecesOf(me)
           /\ b0[to[1]][to[2]] = Null
           /\ dr \in {-2, -1, 1, 2} /\ dc \in {dr, -dr}
           /\ b0[from[1]][from[2]] = me => (IF me = "red" THEN dr < 0 ELSE dr > 0)
           /\ gone \subseteq CellsOf(b0, opp)
           /\ b1[from[1]][from[2]] = Null
           /\ b1[to[1]][to[2]] \in PiecesOf(me)
           /\ \A rc \in gone : b1[rc[1]][rc[2]] = Null
           /\ \A rc \in (0..7) \X (0..7) :
                 rc \notin ({from, to} \cup gone) => b1[rc[1]][rc[2]] = b0[rc[1]][rc[2]]
           /\ Cardinality(CellsOf(b1, me)) = Cardinality(CellsOf(b0, me))
           /\ Cardinality(CellsOf(b1, opp)) = Cardinality(CellsOf(b0, opp)) - Cardinality(gone)
           /\ gs1.gameOver <=> CellsOf(b1, opp) = {}
           /\ gs1.winner = IF gs1.gameOver THEN last'.sid ELSE Null ]_vars

\* a red king has jumped the last black piece: the host has won with 11
\* pieces against none
C29_Witness ==
  /\ last.op = "makeMove" /\ last.valid /\ last.gameType = "checkers"
  /\ last.sid = "s1"
  /\ last.move.toRow - last.move.fromRow \in {-2, 2}
  /\ gameStates[last.code].gameOver /\ gameStates[last.code].winner = "s1"
  /\ gameStates[last.code].board[last.move.toRow][last.move.toCol] = "red-king"
  /\ CellsOf(gameStates[last.code].board, "black") = {}
  /\ Cardinality(CellsOf(gameStates[last.code].board, "red")) = 11

\* the number of accepted ludo moves (rolls and piece moves) in one game
MaxLudoMoves == 24

\* the values of the dice that are rolled: every roll is a 6, which lets a
\* piece leave home and keeps the turn
LudoDice == {6}

\* a roll of the dice with its outcome, or a move of one of the two pieces
LudoMoves ==
  {[action |-> "rollDice", pieceIndex |-> 0, rand |-> r] : r \in LudoDice}
  \cup {[action |-> "movePiece", pieceIndex |-> i, rand |-> 0] : i \in {0, 1}}

\* ludo between two players: the player on turn rolls the dice or moves one
\* of the two pieces, and the turn passes when the turn timer expires; every
\* move is made within the first second of the turn, so no countdown ticks
NextLudo ==
  \/ \E s \in {"s1", "s2"} : Connect(s)
  \/ "A" \notin DOMAIN rooms /\ CreateRoom("s1", "A")
  \/ "A" \in DOMAIN rooms /\ ~RoomIsFull(rooms["A"]) /\ JoinRoom("s2", "A")
  \/ /\ "A" \in DOMAIN rooms /\ RoomIsFull(rooms["A"]) /\ "A" \notin DOMAIN gameStates
     /\ SelectGame("s1", "A", "ludo", {})
  \/ \E s \in {"s1", "s2"}, m \in LudoMoves :
        /\ "A" \in DOMAIN gameStates /\ gameStates["A"].currentPlayer = s
        /\ moves < MaxLudoMoves
        /\ MakeMove(s, "A", m, "ludo")
  \/ \E i \in DOMAIN timers : Expire(i)

SpecLudo == Init /\ [][NextLudo]_vars

\* C30: in every ludo state each player's finished-piece count (home) equals
\* the number of that player's pieces at position 57, and a player has won
\* only with both pieces at 57.
C30_FinishedCountMatchesPieces ==
  \A c \in DOMAIN gameStates :
     gameStates[c].gameType = "ludo" =>
       /\ \A k \in {"player1", "player2"} :
             gameStates[c].board.players[k].home =
               Cardinality({i \in {0, 1} : gameStates[c].board.players[k].pieces[i] = 57})
       /\ gameStates[c].winner # Null =>
             \A i \in {0, 1} :
                gameStates[c].board.players[LudoKey(gameStates[c], gameStates[c].winner)]
                  .pieces[i] = 57

\* a ludo message of the given action, handled for the room's game
LudoStep(action) ==
  /\ MoveStep
  /\ last'.gameType = "ludo"
  /\ Before.gameType = "ludo"
  /\ last'.move.action = action

\* the previous handler was a turn skip of the same room: the player now on
\* turn has not rolled since becoming the current player
JustSkipped ==
  /\ last.op = "expiry" /\ last.found /\ ~last.error
  /\ last.code = last'.code

\* the previous handler was an accepted rollDice of the same player that left
\* the turn with that player: the roll is not consumed yet
JustRolled ==
  /\ last.op = "makeMove" /\ last.valid /\ last.gameType = "ludo"
  /\ last.move.action = "rollDice"
  /\ last.code = last'.code /\ last.sid = last'.sid
  /\ Before.currentPlayer = last.sid

\* the player who got the turn by a timer expiry moves a piece before rolling
MovesOnSkippedDice == LudoStep("movePiece") /\ JustSkipped

\* a player holding an unconsumed roll rolls again
RollsAgain == LudoStep("rollDice") /\ JustRolled

\* C31: in ludo a movePiece is accepted only on the mover's own unconsumed
\* roll: the player who gets the turn by a timer expiry cannot move a piece
\* before rolling, and a player holding an unconsumed roll cannot roll again.
C31_MoveOnOwnRollOnly ==
  [][ /\ MovesOnSkippedDice => ~last'.valid
      /\ RollsAgain => ~last'.valid ]_vars

\* the timerUpdate messages of the last handler
TimerUpdates == {i \in DOMAIN out : out[i].ev = "timerUpdate"}

\* the durations of the timers of room c whose expiry is pending
RunningDurations(c) ==
  {timers[i].dur : i \in {j \in DOMAIN timers : timers[j].code = c /\ timers[j].tmo}}

\* C32: every timerUpdate broadcast to a room carries a timeLeft that is at
\* least 0 and at most the duration of the room's running timer: the remaining
\* seconds never become negative.
C32_TimeLeftInRange ==
  \A i \in TimerUpdates :
     /\ out[i].timeLeft >= 0
     /\ \A d \in RunningDurations(out[i].to.id) : out[i].timeLeft <= d

=============================================================================
